---- MODULE Spec2Model ----
(***************************************************************************)
(* A model of the preference engine of opensumi-core:                      *)
(*   packages/core-browser/src/preferences/preference-service.ts           *)
(* PreferenceServiceImpl resolves a preference name over the scopes        *)
(* Default < User < Workspace < Folder, memoizes the result per            *)
(* (name, language, scope ceiling, resource), reconciles the change        *)
(* batches of the providers into events and routes writes.                 *)
(*                                                                         *)
(* Strings that the code takes apart (preference names) are sequences of   *)
(* one-character strings; a JSON value is a record                         *)
(*   [kind, p, m]: kind "undef" (undefined), "prim" (the number p) or      *)
(*   "rec" (a plain object: m is the set of <<path, leaf>> pairs of its    *)
(*   leaves, a path being a non-empty sequence of keys).                   *)
(***************************************************************************)
EXTENDS Integers, Sequences, FiniteSets, TLC

VARIABLES
  prov,                 \* prov[scope][<<name, language>>]: what the provider of the scope stores
  preferenceProviders,  \* the scopes that have a provider registered (a Map in the code)
  cachedPreference,     \* name -> (cacheKey -> PreferenceResolveResult), both partial
  events,               \* the events the last step fired, in order
  writes,               \* the setPreference calls the providers have received, in order
  ret,                  \* what the last step was, and what it returned or threw
  ready,               \* the Deferred behind `ready`: its state and the error it was rejected with
  providerReady,        \* providerReady[scope]: the state of the `ready` promise of that provider
  awaiting,             \* the scope whose provider initializeProviders awaits, or Done
  toDispose,            \* the disposables the DisposableCollection holds
  menuItems,            \* the items the menu registry holds for the MenuId of the Menu, as registered
  context,              \* the context keys that are true
  menuGroups,           \* Menu._menuGroups: the groups of the latest build
  contextKeys,          \* Menu._contextKeys: the keys of the when expressions of the latest build
  buildHandle,          \* the debounce of the registry events has a timer running
  contextOutput,        \* the debounce of the context events: what it has merged, or NoOutput
  menuDisposed,         \* the Menu has been disposed
  workspace,            \* workspaceService.workspace and isMultiRootWorkspaceOpened
  delegate,             \* WorkspacePreferenceProvider._delegate
  toDisposeOnEnsureDelegateUpToDate,  \* the disposables of that collection
  created,              \* the providers the workspace file provider factory has made so far
  disposedProviders     \* the delegates that have been disposed

vars == <<prov, preferenceProviders, cachedPreference, events, writes, ret,
          ready, providerReady, awaiting, toDispose,
          menuItems, context, menuGroups, contextKeys, buildHandle, contextOutput,
          menuDisposed,
          workspace, delegate, toDisposeOnEnsureDelegateUpToDate, created, disposedProviders>>

\* The state of the life cycle: what the reads, the writes and the reconciliation leave alone.
life == <<ready, providerReady, awaiting, toDispose>>

\* The state of a Menu, and that of the WorkspacePreferenceProvider: what the preference
\* service leaves alone.
menu == <<menuItems, context, menuGroups, contextKeys, buildHandle, contextOutput, menuDisposed>>

workspaceProvider ==
  <<workspace, delegate, toDisposeOnEnsureDelegateUpToDate, created, disposedProviders>>

outside == <<menu, workspaceProvider>>

\* The preference service, for the steps of a Menu and of the WorkspacePreferenceProvider.
service == <<prov, preferenceProviders, cachedPreference, writes, life>>

----------------------------------------------------------------------------
(* Bounds of the model *)

\* The changes one batch of a provider carries, at most.
MaxBatch == 1

\* The setPreference calls the providers receive, at most.
MaxWrites == 1

\* The changes one batch carries, at most, where the events of a pass are looked at.
MaxEmitBatch == 2

\* The items the registry holds for one menu at most.
MaxItems == 3

\* The workspace file providers the factory makes at most.
MaxDelegates == 2

----------------------------------------------------------------------------
(* PreferenceScope *)

Default == 0
User == 1
Workspace == 2
Folder == 3

Scopes == {Default, User, Workspace, Folder}

getScopes == <<Default, User, Workspace, Folder>>

getReversedScopes == <<Folder, Workspace, User, Default>>

getScopeNames == <<"Default", "User", "Workspace", "Folder">>

\* An absent optional argument (scope, language, resourceUri): JavaScript's undefined.
NoScope == -1
NoLang == "<no language>"
NoUri == "<no resource>"

----------------------------------------------------------------------------
(* JSON values *)

Undef == [kind |-> "undef", p |-> 0, m |-> {}]

Prim(n) == [kind |-> "prim", p |-> n, m |-> {}]

Rec(m) == [kind |-> "rec", p |-> 0, m |-> m]

isUndefined(v) == v.kind = "undef"

\* JavaScript truthiness: undefined and 0 are falsy, objects and other numbers truthy.
Truthy(v) == v.kind = "rec" \/ (v.kind = "prim" /\ v.p # 0)

TopKeys(v) == {e[1][1] : e \in v.m}

\* value[key] for a defined value: a property of an object, undefined on a number.
GetKey(v, key) ==
  LET sub == {e \in v.m : e[1][1] = key} IN
  IF v.kind # "rec" \/ sub = {} THEN Undef
  ELSE IF \E e \in sub : Len(e[1]) = 1
       THEN Prim((CHOOSE e \in sub : Len(e[1]) = 1)[2])
       ELSE Rec({<<Tail(e[1]), e[2]>> : e \in sub})

\* `path` starts with `prefix`.
StartsWith(path, prefix) ==
  Len(prefix) <= Len(path) /\ SubSeq(path, 1, Len(prefix)) = prefix

\* object[key] = n, done on the object found at `path` inside the object v.
SetKey(v, path, key, n) ==
  Rec({e \in v.m : ~StartsWith(e[1], Append(path, key))} \cup {<<Append(path, key), n>>})

\* deepClone: a structural copy, equal to its argument and sharing nothing with it.
deepClone(v) ==
  IF v.kind = "rec" THEN Rec({<<e[1], e[2]>> : e \in v.m}) ELSE v

\* PreferenceProvider.merge(source, target): two plain objects merge key-wise, one level
\* deep, the target's keys replacing the source's; otherwise the target replaces the source.
merge(source, target) ==
  IF source.kind = "rec" /\ target.kind = "rec"
  THEN Rec({e \in source.m : e[1][1] \notin TopKeys(target)} \cup target.m)
  ELSE deepClone(target)

----------------------------------------------------------------------------
(* Preference names: sequences of characters *)

\* key.split('.'): the segments between the dots (an empty string gives one empty segment).
RECURSIVE SplitFrom(_, _, _)
SplitFrom(key, i, cur) ==
  IF i > Len(key) THEN <<cur>>
  ELSE IF key[i] = "." THEN <<cur>> \o SplitFrom(key, i + 1, <<>>)
  ELSE SplitFrom(key, i + 1, Append(cur, key[i]))

split(key) == SplitFrom(key, 1, <<>>)

\* parts.join('.')
RECURSIVE join(_)
join(parts) ==
  IF Len(parts) = 0 THEN <<>>
  ELSE IF Len(parts) = 1 THEN parts[1]
  ELSE parts[1] \o <<".">> \o join(Tail(parts))

----------------------------------------------------------------------------
(* The names, languages, resources and values the specifications use *)

kA == <<"a">>
kB == <<"b">>
kC == <<"c">>

\* "p" may live in Default, User and Workspace; "q" in every scope.
nP == <<"p">>
nQ == <<"q">>
\* The dotted names of the lookup specification: "a", "a.b", "a.b.c", and the empty name.
nA == <<"a">>
nAB == <<"a", ".", "b">>
nABC == <<"a", ".", "b", ".", "c">>
nEmpty == <<>>

Names == {nP, nQ, nA, nAB, nABC, nEmpty}

Languages == {"json"}

LangArgs == {NoLang} \cup Languages

Uris == {"file:///w/f"}

UriArgs == {NoUri} \cup Uris

Slots == Names \X LangArgs

\* The example of the record merge: {a:1, b:2} and {b:3, c:4}.
R1 == Rec({<<(<<kA>>), 1>>, <<(<<kB>>), 2>>})
R2 == Rec({<<(<<kB>>), 3>>, <<(<<kC>>), 4>>})
\* {b: {c: 5}} and {c: 5}
RBC == Rec({<<(<<kB, kC>>), 5>>})
RC == Rec({<<(<<kC>>), 5>>})

----------------------------------------------------------------------------
(* The schema contract: PreferenceSchemaProvider.isValidInScope *)

\* The most specific scope each known preference may be set in.
schemaScope ==
  (nP :> Workspace) @@ (nQ :> Folder) @@ (nA :> Workspace) @@ (nAB :> Workspace)
  @@ (nABC :> Workspace)

isValidInScope(preferenceName, scope) ==
  preferenceName \in DOMAIN schemaScope /\ scope <= schemaScope[preferenceName]

----------------------------------------------------------------------------
(* The provider contract *)

\* getProvider(scope) is defined.
getProvider(scope) == scope \in preferenceProviders

\* provider.get(name, resourceUri, language): the point lookup of one scope.
ProviderGet(pv, scope, preferenceName, resourceUri, language) ==
  pv[scope][<<preferenceName, language>>]

\* provider.resolve(name, resourceUri, language): the value with the file that holds it;
\* languageSpecific when a language was asked for and has a value of its own.
ProviderResolve(pv, scope, preferenceName, resourceUri, language) ==
  LET value == ProviderGet(pv, scope, preferenceName, resourceUri, language) IN
  [value |-> value,
   configUri |-> IF isUndefined(value) THEN NoScope ELSE scope,
   languageSpecific |-> language # NoLang /\ ~isUndefined(value)]

----------------------------------------------------------------------------
(* Resolution: doResolveWithOutCache *)

\* The scopes the walk visits: `untilScope ? filter(s <= untilScope) : getScopes()`;
\* an absent ceiling and the ceiling Default (0) are both falsy.
WalkScopes(untilScope) ==
  IF untilScope = NoScope \/ untilScope = 0 THEN getScopes
  ELSE SelectSeq(getScopes, LAMBDA s : s <= untilScope)

\* A walk in which a value once found is kept: the lowest defining scope wins.
MergeIntoLowestWins(result, scope, r) ==
  IF ~isUndefined(r.value) /\ isUndefined(result.value)
  THEN [result EXCEPT !.configUri = r.configUri, !.value = deepClone(r.value), !.scope = scope]
  ELSE result

\* Lines 453-457: a defined value `r.value` of the provider of `scope` is merged in.
MergeInto(result, scope, r) ==
  IF ~isUndefined(r.value)
  THEN [result EXCEPT !.configUri = r.configUri,
                      !.value = merge(result.value, r.value),
                      !.scope = scope]
  ELSE result

\* One turn of the first loop (lines 448-460).
MergeScope(pv, result, scope, preferenceName, resourceUri) ==
  IF isValidInScope(preferenceName, scope) /\ getProvider(scope)
  THEN MergeInto(result, scope, ProviderResolve(pv, scope, preferenceName, resourceUri, NoLang))
  ELSE result

\* Lines 469-474: a defined language-specific value of the provider of `scope` is merged in.
MergeLanguageInto(result, scope, r) ==
  IF ~isUndefined(r.value)
  THEN [configUri |-> r.configUri,
        value |-> merge(result.value, r.value),
        scope |-> scope,
        languageSpecific |-> result.languageSpecific \/ r.languageSpecific]
  ELSE result

\* One turn of the language loop (lines 464-477).
MergeLanguageScope(pv, result, scope, preferenceName, resourceUri, language) ==
  IF isValidInScope(preferenceName, scope) /\ getProvider(scope)
  THEN MergeLanguageInto(result, scope,
                         ProviderResolve(pv, scope, preferenceName, resourceUri, language))
  ELSE result

RECURSIVE MergeWalk(_, _, _, _, _, _)
MergeWalk(pv, result, scopes, i, preferenceName, resourceUri) ==
  IF i > Len(scopes) THEN result
  ELSE MergeWalk(pv, MergeScope(pv, result, scopes[i], preferenceName, resourceUri),
                 scopes, i + 1, preferenceName, resourceUri)

RECURSIVE MergeLanguageWalk(_, _, _, _, _, _, _)
MergeLanguageWalk(pv, result, scopes, i, preferenceName, resourceUri, language) ==
  IF i > Len(scopes) THEN result
  ELSE MergeLanguageWalk(pv,
         MergeLanguageScope(pv, result, scopes[i], preferenceName, resourceUri, language),
         scopes, i + 1, preferenceName, resourceUri, language)

\* `const result = { scope: PreferenceScope.Default }`
ResultStart ==
  [configUri |-> NoScope, value |-> Undef, scope |-> Default, languageSpecific |-> FALSE]

\* Lines 480-485: the result handed out holds a clone of the merged value.
ClonedResult(result) ==
  [configUri |-> result.configUri,
   value |-> IF ~isUndefined(result.value) THEN deepClone(result.value) ELSE Undef,
   scope |-> IF result.scope # 0 THEN result.scope ELSE Default,
   languageSpecific |-> result.languageSpecific]

\* Lines 463-478: the language walk, on top of the result of the first walk.
LanguageOverlay(pv, plain, scopes, preferenceName, resourceUri, language) ==
  IF language # NoLang
  THEN MergeLanguageWalk(pv, plain, scopes, 1, preferenceName, resourceUri, language)
  ELSE plain

doResolveWithOutCache(pv, preferenceName, resourceUri, untilScope, language) ==
  ClonedResult(
    LanguageOverlay(pv,
      MergeWalk(pv, ResultStart, WalkScopes(untilScope), 1, preferenceName, resourceUri),
      WalkScopes(untilScope), preferenceName, resourceUri, language))

----------------------------------------------------------------------------
(* The cache: doResolve *)

\* `${language}:::${untilScope}:::${resourceUri}`: an absent argument prints as "undefined".
cacheHash(language, untilScope, resourceUri) ==
  <<IF language = NoLang THEN "undefined" ELSE language,
    IF untilScope = NoScope THEN "undefined" ELSE <<"0", "1", "2", "3">>[untilScope + 1],
    IF resourceUri = NoUri THEN "undefined" ELSE resourceUri>>

\* The cache `c` with the entry of (name, key) set to `result`.
CachePut(c, preferenceName, cacheKey, result) ==
  [n \in DOMAIN c \cup {preferenceName} |->
     IF n = preferenceName
     THEN [k \in (IF n \in DOMAIN c THEN DOMAIN c[n] ELSE {}) \cup {cacheKey} |->
             IF k = cacheKey THEN result ELSE c[n][k]]
     ELSE c[n]]

\* An invalidation that empties the cache: cachedPreference.clear()
CacheClear(c, preferenceName) == [n \in {} |-> <<>>]

\* cachedPreference.delete(name)
CacheDelete(c, preferenceName) ==
  [n \in DOMAIN c \ {preferenceName} |-> c[n]]

CacheHas(c, preferenceName, cacheKey) ==
  preferenceName \in DOMAIN c /\ cacheKey \in DOMAIN c[preferenceName]

\* Lines 430-437: the entry of the key is computed unless the cache has it.
CacheFill(pv, c, preferenceName, resourceUri, untilScope, language) ==
  IF CacheHas(c, preferenceName, cacheHash(language, untilScope, resourceUri))
  THEN c
  ELSE CachePut(c, preferenceName, cacheHash(language, untilScope, resourceUri),
                doResolveWithOutCache(pv, preferenceName, resourceUri, untilScope, language))

\* Lines 438-442: `result` is the cached object; `result.value = defaultValue` writes the
\* default into it, and the object itself is returned.
ReadCached(c, preferenceName, cacheKey, defaultValue, miss) ==
  IF isUndefined(c[preferenceName][cacheKey].value)
  THEN [cache |-> CachePut(c, preferenceName, cacheKey,
                           [c[preferenceName][cacheKey] EXCEPT !.value = defaultValue]),
        result |-> [c[preferenceName][cacheKey] EXCEPT !.value = defaultValue],
        miss |-> miss]
  ELSE [cache |-> c, result |-> c[preferenceName][cacheKey], miss |-> miss]

\* doResolve on the cache `c`: the cache it leaves and the result object it returns
\* (`miss` tells that this call computed the entry).
doResolve(pv, c, preferenceName, defaultValue, resourceUri, untilScope, language) ==
  ReadCached(CacheFill(pv, c, preferenceName, resourceUri, untilScope, language),
             preferenceName, cacheHash(language, untilScope, resourceUri), defaultValue,
             ~CacheHas(c, preferenceName, cacheHash(language, untilScope, resourceUri)))

----------------------------------------------------------------------------
(* lookUp, resolve, get *)

\* What a call hands back of the cache: nothing, or the object at `path` inside the
\* value of the entry (name, key) (`has`), the result object being that entry itself or
\* not (`entry`). The caller and the cache then share these objects.
NoAlias == [has |-> FALSE, entry |-> FALSE, name |-> <<>>, key |-> <<>>, path |-> <<>>]

Alias(preferenceName, cacheKey, path, value, entry) ==
  [has |-> value.kind = "rec", entry |-> entry, name |-> preferenceName, key |-> cacheKey,
   path |-> path]

\* A result that carries a value only: `{ value }`.
ValueOnly(value) ==
  [configUri |-> NoScope, value |-> value, scope |-> NoScope, languageSpecific |-> FALSE]

\* parts.slice(from, to)
slice(parts, from, to) == SubSeq(parts, from + 1, to)

\* The loop of lines 319-325: the prefixes of i, i-1, ..., 1 segments, up to the first
\* whose value is truthy. `reset` stays unset (has = FALSE) when none is.
RECURSIVE LookUpLoop(_, _, _, _, _)
RECURSIVE LookUpTurn(_, _, _, _, _)
LookUpTurn(pv, parts, i, prefix, r) ==
  IF Truthy(r.result.value)
  THEN [cache |-> r.cache, value |-> r.result.value, has |-> TRUE,
        reset |-> slice(parts, i, Len(parts)), prefix |-> prefix]
  ELSE LookUpLoop(pv, r.cache, parts, i - 1, r.result.value)

LookUpLoop(pv, c, parts, i, value) ==
  IF i <= 0 THEN [cache |-> c, value |-> value, has |-> FALSE, reset |-> <<>>, prefix |-> <<>>]
  ELSE LookUpTurn(pv, parts, i, join(slice(parts, 0, i)),
                  doResolve(pv, c, join(slice(parts, 0, i)), Undef, NoUri, NoScope, NoLang))

\* The loop of lines 326-328: value = value[reset.shift()]; reading a property of
\* undefined throws a TypeError.
RECURSIVE AccessLoop(_, _)
AccessLoop(value, reset) ==
  IF Len(reset) = 0 THEN [value |-> value, threw |-> FALSE]
  ELSE IF isUndefined(value) THEN [value |-> Undef, threw |-> TRUE]
  ELSE AccessLoop(GetKey(value, Head(reset)), Tail(reset))

\* `return { value }` of line 329, `got` being what the second loop came to.
LookUpReturn(found, got) ==
  [cache |-> found.cache, result |-> ValueOnly(got.value), miss |-> FALSE,
   threw |-> got.threw,
   alias |-> IF found.has /\ ~got.threw /\ got.value.kind = "rec"
             THEN Alias(found.prefix, cacheHash(NoLang, NoScope, NoUri), found.reset,
                        got.value, FALSE)
             ELSE NoAlias]

\* Lines 326-329, `found` being what the first loop came to.
LookUpAccess(found) ==
  LookUpReturn(found,
               IF found.has THEN AccessLoop(found.value, found.reset)
               ELSE [value |-> found.value, threw |-> FALSE])

lookUp(pv, c, key) ==
  IF Len(key) = 0
  THEN [cache |-> c, result |-> ValueOnly(Undef), miss |-> FALSE, threw |-> FALSE,
        alias |-> NoAlias]
  ELSE LookUpAccess(LookUpLoop(pv, c, split(key), Len(split(key)) - 1, Undef))

\* Lines 334-337, `r` being what doResolve returned.
ResolveReturn(pv, preferenceName, resourceUri, language, r) ==
  IF isUndefined(r.result.value)
  THEN [lookUp(pv, r.cache, preferenceName) EXCEPT !.miss = r.miss]
  ELSE [cache |-> r.cache, result |-> r.result, miss |-> r.miss, threw |-> FALSE,
        alias |-> Alias(preferenceName, cacheHash(language, NoScope, resourceUri), <<>>,
                        r.result.value, TRUE)]

resolve(pv, c, preferenceName, defaultValue, resourceUri, language) ==
  ResolveReturn(pv, preferenceName, resourceUri, language,
                doResolve(pv, c, preferenceName, defaultValue, resourceUri, NoScope, language))

\* get: `resolve(...).value`, read by the caller as result.value.
get(pv, c, preferenceName, defaultValue, resourceUri, language) ==
  resolve(pv, c, preferenceName, defaultValue, resourceUri, language)

----------------------------------------------------------------------------
(* The state machine *)

\* What inspect returns when no scope holds a value.
NoInspect ==
  [preferenceName |-> <<>>, defaultValue |-> Undef, globalValue |-> Undef,
   workspaceValue |-> Undef, workspaceFolderValue |-> Undef]

\* What `ret` holds after construction, and the fields every step fills in.
NoCall ==
  [op |-> "none", name |-> <<>>, defaultValue |-> Undef, resourceUri |-> NoUri,
   language |-> NoLang, scope |-> NoScope, value |-> Undef, result |-> ValueOnly(Undef),
   threw |-> "", miss |-> FALSE, alias |-> NoAlias,
   batch |-> [default |-> <<>>, languageSpecific |-> <<>>],
   inspected |-> NoInspect, keys |-> {}, from |-> [kind |-> "undefined", n |-> 0],
   returned |-> FALSE]

\* The caller of resolve gets `r`.
Resolved(preferenceName, defaultValue, resourceUri, language, r) ==
  /\ cachedPreference' = r.cache
  /\ ret' = [NoCall EXCEPT !.op = "resolve", !.name = preferenceName,
                           !.defaultValue = defaultValue, !.resourceUri = resourceUri,
                           !.language = language,
                           !.result = IF r.threw THEN ValueOnly(Undef) ELSE r.result,
                           !.threw = IF r.threw THEN "TypeError" ELSE "",
                           !.miss = r.miss,
                           !.alias = IF r.threw THEN NoAlias ELSE r.alias]
  /\ events' = <<>>
  /\ UNCHANGED <<prov, preferenceProviders, writes, life, outside>>

\* A caller resolves a preference.
Resolve(preferenceName, defaultValue, resourceUri, language) ==
  Resolved(preferenceName, defaultValue, resourceUri, language,
           resolve(prov, cachedPreference, preferenceName, defaultValue, resourceUri, language))

\* The caller of the last resolve writes `value[key] = n` into the object it was handed as
\* the value: the object at ret.alias.path inside the cached value of ret.alias.name.
Mutate(key, n) ==
  /\ ret.op = "resolve" /\ ret.alias.has
  /\ cachedPreference' =
       CachePut(cachedPreference, ret.alias.name, ret.alias.key,
                [cachedPreference[ret.alias.name][ret.alias.key] EXCEPT
                   !.value = SetKey(@, ret.alias.path, key, n)])
  /\ ret' = [ret EXCEPT !.op = "mutate", !.result.value = SetKey(@, <<>>, key, n)]
  /\ events' = <<>>
  /\ UNCHANGED <<prov, preferenceProviders, writes, life, outside>>

\* The caller of the last resolve writes `result.value = n` into the result object it was
\* handed, which is the cache entry.
MutateResult(n) ==
  /\ ret.op = "resolve" /\ ret.alias.entry
  /\ cachedPreference' =
       CachePut(cachedPreference, ret.alias.name, ret.alias.key,
                [cachedPreference[ret.alias.name][ret.alias.key] EXCEPT !.value = Prim(n)])
  /\ ret' = [ret EXCEPT !.op = "mutate", !.result.value = Prim(n)]
  /\ events' = <<>>
  /\ UNCHANGED <<prov, preferenceProviders, writes, life, outside>>

\* hasLanguageSpecific(name, language, resourceUri): `!!doResolve(...).languageSpecific`.
HasLanguageSpecific(preferenceName, language, resourceUri) ==
  LET r == doResolve(prov, cachedPreference, preferenceName, Undef, resourceUri, NoScope,
                     language) IN
  /\ cachedPreference' = r.cache
  /\ ret' = [NoCall EXCEPT !.op = "hasLanguageSpecific", !.name = preferenceName,
                           !.resourceUri = resourceUri, !.language = language,
                           !.result = [ValueOnly(Undef) EXCEPT
                                         !.languageSpecific = r.result.languageSpecific],
                           !.miss = r.miss]
  /\ events' = <<>>
  /\ UNCHANGED <<prov, preferenceProviders, writes, life, outside>>

----------------------------------------------------------------------------
(* set *)

\* A resource URI that is the empty string: given, and falsy.
EmptyUri == ""

\* `!resourceUri`
NoResource(resourceUri) == resourceUri = NoUri \/ resourceUri = EmptyUri

\* The names reserved as sections that are not for the global scope.
SectionNames == {<<"s">>}

\* configurations.isSectionName(name)
isSectionName(name) == name \in SectionNames

\* A set that routes by the resource alone: an explicit scope is not looked at.
ResolvedScopeByResource(scope, resourceUri) ==
  IF NoResource(resourceUri) THEN Workspace ELSE Folder

\* Line 341: the scope given, else Workspace without a resource and Folder with one.
ResolvedScope(scope, resourceUri) ==
  IF scope # NoScope THEN scope
  ELSE IF NoResource(resourceUri) THEN Workspace ELSE Folder

\* The errors of set.
ErrNotGlobal == "Unable to write to User Settings because the name does not support for global scope."
ErrNoResource == "Unable to write to Folder Settings because no resource is provided."

ErrUnableToWrite(scope) == "Unable to write to " \o getScopeNames[scope + 1] \o " Settings."

\* set has thrown `error` before it reached a provider.
SetRejected(preferenceName, value, resolvedScope, resourceUri, error) ==
  /\ ret' = [NoCall EXCEPT !.op = "set", !.name = preferenceName, !.value = value,
                           !.scope = resolvedScope, !.resourceUri = resourceUri,
                           !.threw = error]
  /\ UNCHANGED <<prov, preferenceProviders, cachedPreference, events, writes, life, outside>>

\* Lines 349-350: set has called provider.setPreference and awaits what it returns.
SetDispatched(preferenceName, value, resolvedScope, resourceUri) ==
  /\ Len(writes) < MaxWrites
  /\ writes' = Append(writes, [scope |-> resolvedScope, preferenceName |-> preferenceName,
                               value |-> value, resourceUri |-> resourceUri,
                               outcome |-> "pending"])
  /\ ret' = [NoCall EXCEPT !.op = "set", !.name = preferenceName, !.value = value,
                           !.scope = resolvedScope, !.resourceUri = resourceUri,
                           !.threw = ""]
  /\ UNCHANGED <<prov, preferenceProviders, cachedPreference, events, life, outside>>

\* A set that does not look at the name: a section goes to the User provider as any
\* other name does.
SetWithoutSectionCheck(preferenceName, value, resolvedScope, resourceUri) ==
  IF resolvedScope = Folder /\ NoResource(resourceUri)
  THEN SetRejected(preferenceName, value, resolvedScope, resourceUri, ErrNoResource)
  ELSE IF ~getProvider(resolvedScope)
  THEN SetRejected(preferenceName, value, resolvedScope, resourceUri,
                   ErrUnableToWrite(resolvedScope))
  ELSE SetDispatched(preferenceName, value, resolvedScope, resourceUri)

\* A set that takes a failed or impossible write for done: it throws only what the checks
\* of the name and of the resource throw.
SetWithoutProviderCheck(preferenceName, value, resolvedScope, resourceUri) ==
  IF resolvedScope = User /\ isSectionName(split(preferenceName)[1])
  THEN SetRejected(preferenceName, value, resolvedScope, resourceUri, ErrNotGlobal)
  ELSE IF resolvedScope = Folder /\ NoResource(resourceUri)
  THEN SetRejected(preferenceName, value, resolvedScope, resourceUri, ErrNoResource)
  ELSE IF ~getProvider(resolvedScope)
  THEN SetRejected(preferenceName, value, resolvedScope, resourceUri, "")
  ELSE SetDispatched(preferenceName, value, resolvedScope, resourceUri)

\* A set that does not look at the resource: a Folder write goes to the provider as any
\* other write does.
SetWithoutResourceCheck(preferenceName, value, resolvedScope, resourceUri) ==
  IF resolvedScope = User /\ isSectionName(split(preferenceName)[1])
  THEN SetRejected(preferenceName, value, resolvedScope, resourceUri, ErrNotGlobal)
  ELSE IF ~getProvider(resolvedScope)
  THEN SetRejected(preferenceName, value, resolvedScope, resourceUri,
                   ErrUnableToWrite(resolvedScope))
  ELSE SetDispatched(preferenceName, value, resolvedScope, resourceUri)

\* set(name, value, scope, resourceUri), up to its await (lines 340-350).
SetChecked(preferenceName, value, resolvedScope, resourceUri) ==
  IF resolvedScope = User /\ isSectionName(split(preferenceName)[1])
  THEN SetRejected(preferenceName, value, resolvedScope, resourceUri, ErrNotGlobal)
  ELSE IF resolvedScope = Folder /\ NoResource(resourceUri)
  THEN SetRejected(preferenceName, value, resolvedScope, resourceUri, ErrNoResource)
  ELSE IF ~getProvider(resolvedScope)
  THEN SetRejected(preferenceName, value, resolvedScope, resourceUri,
                   ErrUnableToWrite(resolvedScope))
  ELSE SetDispatched(preferenceName, value, resolvedScope, resourceUri)

Set(preferenceName, value, scope, resourceUri) ==
  SetChecked(preferenceName, value, ResolvedScope(scope, resourceUri), resourceUri)

\* The error a provider rejects a write with.
ErrProvider == "the provider's error"

\* The i-th setPreference call is rejected by its provider: the await of line 350 throws
\* the provider's error out of set.
SetThrown(i) ==
  /\ i \in 1..Len(writes)
  /\ writes[i].outcome = "pending"
  /\ writes' = [writes EXCEPT ![i].outcome = "rejected"]
  /\ ret' = [NoCall EXCEPT !.op = "setSettled", !.name = writes[i].preferenceName,
                           !.value = writes[i].value, !.scope = writes[i].scope,
                           !.resourceUri = writes[i].resourceUri, !.threw = ErrProvider]
  /\ UNCHANGED <<prov, preferenceProviders, cachedPreference, events, life, outside>>

\* The i-th setPreference call returns `written`: set returns on true (lines 350-352) and
\* throws on false (line 353).
SetSettled(i, written) ==
  /\ i \in 1..Len(writes)
  /\ writes[i].outcome = "pending"
  /\ writes' = [writes EXCEPT ![i].outcome = IF written THEN "written" ELSE "failed"]
  /\ ret' = [NoCall EXCEPT !.op = "setSettled", !.name = writes[i].preferenceName,
                           !.value = writes[i].value, !.scope = writes[i].scope,
                           !.resourceUri = writes[i].resourceUri,
                           !.threw = IF written THEN "" ELSE ErrUnableToWrite(writes[i].scope)]
  /\ UNCHANGED <<prov, preferenceProviders, cachedPreference, events, life, outside>>

----------------------------------------------------------------------------
(* Change reconciliation: reconcilePreferences, tryAcceptChanges *)

\* ConfigurationTarget
ConfigurationTarget_USER == 1
ConfigurationTarget_WORKSPACE == 4
ConfigurationTarget_WORKSPACE_FOLDER == 5
ConfigurationTarget_DEFAULT == 6

\* change.domain ? change.domain[0] : undefined
Domain0(change) == IF Len(change.domain) = 0 THEN NoUri ELSE change.domain[1]

\* What one raw change comes to: nothing accepted, or the change accepted (perhaps
\* reattributed), with the cache as the walk left it. `threw`: this.get threw.
Rejected(c) == [cache |-> c, accepted |-> <<>>, threw |-> FALSE]

\* An acceptChange that keeps the cache entry of the name.
acceptChangeKeepingCache(c, change) ==
  [cache |-> c, accepted |-> <<change>>, threw |-> FALSE]

\* acceptChange: the cache entry of the name is dropped and the change is kept for emission.
acceptChange(c, change) ==
  [cache |-> CacheDelete(c, change.preferenceName), accepted |-> <<change>>, threw |-> FALSE]

\* Lines 251-256: the change takes the value `this.get(...)` returned (`g`), then is accepted.
AcceptResolved(change, scope, g) ==
  IF g.threw THEN [cache |-> g.cache, accepted |-> <<>>, threw |-> TRUE]
  ELSE acceptChange(g.cache, [change EXCEPT !.newValue = g.result.value, !.scope = scope])

\* The walk of lines 228-261 from the i-th of the reversed scopes on; WalkScope is the
\* body of the loop for a valid scope whose provider holds `value`.
RECURSIVE WalkReversed(_, _, _, _, _)
RECURSIVE WalkScope(_, _, _, _, _, _, _)
\* A walk that does not stop at a value of a more specific scope.
WalkScopeUnshadowed(pv, c, change, language, i, scope, value) ==
  IF scope = change.scope /\ ~isUndefined(change.newValue)
  THEN acceptChange(c, change)
  ELSE IF scope < change.scope /\ isUndefined(change.newValue) /\ ~isUndefined(value)
  THEN acceptChange(c, [change EXCEPT !.newValue = value, !.scope = scope])
  ELSE IF scope = Default /\ isUndefined(change.newValue) /\ isUndefined(value)
  THEN AcceptResolved(change, scope,
                      get(pv, c, change.preferenceName, Undef, Domain0(change), NoLang))
  ELSE WalkReversed(pv, c, change, language, i + 1)

\* A walk that hands a deletion down with the value of the lower scope, and leaves its
\* scope as reported.
WalkScopeKeepingScope(pv, c, change, language, i, scope, value) ==
  IF scope > change.scope /\ ~isUndefined(value)
  THEN Rejected(c)
  ELSE IF scope = change.scope /\ ~isUndefined(change.newValue)
  THEN acceptChange(c, change)
  ELSE IF scope < change.scope /\ isUndefined(change.newValue) /\ ~isUndefined(value)
  THEN acceptChange(c, [change EXCEPT !.newValue = value])
  ELSE IF scope = Default /\ isUndefined(change.newValue) /\ isUndefined(value)
  THEN AcceptResolved(change, scope,
                      get(pv, c, change.preferenceName, Undef, Domain0(change), NoLang))
  ELSE WalkReversed(pv, c, change, language, i + 1)

WalkScope(pv, c, change, language, i, scope, value) ==
  IF scope > change.scope /\ ~isUndefined(value)
  THEN Rejected(c)
  ELSE IF scope = change.scope /\ ~isUndefined(change.newValue)
  THEN acceptChange(c, change)
  ELSE IF scope < change.scope /\ isUndefined(change.newValue) /\ ~isUndefined(value)
  THEN acceptChange(c, [change EXCEPT !.newValue = value, !.scope = scope])
  ELSE IF scope = Default /\ isUndefined(change.newValue) /\ isUndefined(value)
  THEN AcceptResolved(change, scope,
                      get(pv, c, change.preferenceName, Undef, Domain0(change), NoLang))
  ELSE WalkReversed(pv, c, change, language, i + 1)

\* A walk that asks every valid scope for its value, registered or not.
WalkReversedAllScopes(pv, c, change, language, i) ==
  IF i > Len(getReversedScopes) THEN Rejected(c)
  ELSE IF isValidInScope(change.preferenceName, getReversedScopes[i])
  THEN WalkScope(pv, c, change, language, i, getReversedScopes[i],
                 ProviderGet(pv, getReversedScopes[i], change.preferenceName,
                             Domain0(change), language))
  ELSE WalkReversed(pv, c, change, language, i + 1)

WalkReversed(pv, c, change, language, i) ==
  IF i > Len(getReversedScopes) THEN Rejected(c)
  ELSE IF isValidInScope(change.preferenceName, getReversedScopes[i])
          /\ getProvider(getReversedScopes[i])
  THEN WalkScope(pv, c, change, language, i, getReversedScopes[i],
                 ProviderGet(pv, getReversedScopes[i], change.preferenceName,
                             Domain0(change), language))
  ELSE WalkReversed(pv, c, change, language, i + 1)

\* A reconciler that accepts every change as its provider reported it.
tryAcceptAsReported(pv, c, change, language) == acceptChange(c, change)

\* A reconciler that walks the scopes for every name, those valid in Folder scope too.
tryAcceptWalking(pv, c, change, language) == WalkReversed(pv, c, change, language, 1)

\* One turn of the loop of tryAcceptChanges.
tryAcceptChange(pv, c, change, language) ==
  IF isValidInScope(change.preferenceName, Folder)
  THEN acceptChange(c, change)
  ELSE WalkReversed(pv, c, change, language, 1)

\* tryAcceptChanges over the changes from the i-th on; `acc` are those accepted so far, and
\* `r` in AfterChange what the i-th came to.
RECURSIVE tryAcceptChanges(_, _, _, _, _, _)
RECURSIVE AfterChange(_, _, _, _, _, _)
AfterChange(pv, changes, language, i, acc, r) ==
  IF r.threw THEN [cache |-> r.cache, accepted |-> acc, threw |-> TRUE]
  ELSE tryAcceptChanges(pv, r.cache, changes, language, i + 1, acc \o r.accepted)

tryAcceptChanges(pv, c, changes, language, i, acc) ==
  IF i > Len(changes) THEN [cache |-> c, accepted |-> acc, threw |-> FALSE]
  ELSE AfterChange(pv, changes, language, i, acc,
                   tryAcceptChange(pv, c, changes[i], language))

\* The language groups of a batch from the i-th on (lines 201-203); `acc` holds, per
\* language that had a change accepted, the accepted changes.
RECURSIVE tryAcceptLanguages(_, _, _, _, _)
RECURSIVE AfterLanguage(_, _, _, _, _)
\* A reconciler that keeps a map for every language of the batch, accepted changes or not.
AfterLanguageAlways(pv, groups, i, acc, r) ==
  IF r.threw THEN [cache |-> r.cache, accepted |-> acc, threw |-> TRUE]
  ELSE tryAcceptLanguages(pv, r.cache, groups, i + 1,
         Append(acc, [language |-> groups[i].language, changes |-> r.accepted]))

AfterLanguage(pv, groups, i, acc, r) ==
  IF r.threw THEN [cache |-> r.cache, accepted |-> acc, threw |-> TRUE]
  ELSE tryAcceptLanguages(pv, r.cache, groups, i + 1,
         IF Len(r.accepted) = 0 THEN acc
         ELSE Append(acc, [language |-> groups[i].language, changes |-> r.accepted]))

tryAcceptLanguages(pv, c, groups, i, acc) ==
  IF i > Len(groups) THEN [cache |-> c, accepted |-> acc, threw |-> FALSE]
  ELSE AfterLanguage(pv, groups, i, acc,
                     tryAcceptChanges(pv, c, groups[i].changes, groups[i].language, 1, <<>>))

Event(type) ==
  [type |-> type, changes |-> <<>>, language |-> NoLang, source |-> 0, affectedKeys |-> <<>>]

\* The names of the changes of one scope, in the order of the changes.
RECURSIVE AffectedKeys(_, _)
AffectedKeys(changes, scope) ==
  IF Len(changes) = 0 THEN <<>>
  ELSE (IF Head(changes).scope = scope THEN <<Head(changes).preferenceName>> ELSE <<>>)
       \o AffectedKeys(Tail(changes), scope)

ConfigurationEvent(changes, scope, source) ==
  IF Len(AffectedKeys(changes, scope)) = 0 THEN <<>>
  ELSE <<[Event("onDidChangeConfiguration") EXCEPT
            !.affectedKeys = AffectedKeys(changes, scope), !.source = source]>>

\* A notification that goes through the scopes from Folder down to Default.
triggerFromFolderDown(changesToEmit) ==
  <<[Event("onPreferencesChanged") EXCEPT !.changes = changesToEmit]>>
  \o ConfigurationEvent(changesToEmit, Folder, ConfigurationTarget_WORKSPACE_FOLDER)
  \o ConfigurationEvent(changesToEmit, Workspace, ConfigurationTarget_WORKSPACE)
  \o ConfigurationEvent(changesToEmit, User, ConfigurationTarget_USER)
  \o ConfigurationEvent(changesToEmit, Default, ConfigurationTarget_DEFAULT)

\* triggerPeferencesChanged: the batched event, then one event per scope that has changes.
triggerPeferencesChanged(changesToEmit) ==
  <<[Event("onPreferencesChanged") EXCEPT !.changes = changesToEmit]>>
  \o ConfigurationEvent(changesToEmit, Default, ConfigurationTarget_DEFAULT)
  \o ConfigurationEvent(changesToEmit, User, ConfigurationTarget_USER)
  \o ConfigurationEvent(changesToEmit, Workspace, ConfigurationTarget_WORKSPACE)
  \o ConfigurationEvent(changesToEmit, Folder, ConfigurationTarget_WORKSPACE_FOLDER)

\* An emission without the aggregate event: one onPreferenceChanged per change, then the
\* language events.
EmittedOneByOne(changesToEmit, languageSpecificChangesToEmit) ==
  [i \in 1..Len(changesToEmit) |->
     [Event("onPreferenceChanged") EXCEPT !.changes = <<changesToEmit[i]>>]]
  \o [i \in 1..Len(languageSpecificChangesToEmit) |->
        [Event("onLanguagePreferencesChanged") EXCEPT
           !.language = languageSpecificChangesToEmit[i].language,
           !.changes = languageSpecificChangesToEmit[i].changes]]

\* The events of lines 205-218, in the order they fire.
EmittedEvents(changesToEmit, languageSpecificChangesToEmit) ==
  (IF Len(changesToEmit) > 0 THEN triggerPeferencesChanged(changesToEmit) ELSE <<>>)
  \o [i \in 1..Len(changesToEmit) |->
        [Event("onPreferenceChanged") EXCEPT !.changes = <<changesToEmit[i]>>]]
  \o [i \in 1..Len(languageSpecificChangesToEmit) |->
        [Event("onLanguagePreferencesChanged") EXCEPT
           !.language = languageSpecificChangesToEmit[i].language,
           !.changes = languageSpecificChangesToEmit[i].changes]]

\* Lines 205-218, `l` being what the language groups came to.
Emit(changesToEmit, l) ==
  [cache |-> l.cache,
   threw |-> l.threw,
   events |-> IF l.threw THEN <<>> ELSE EmittedEvents(changesToEmit, l.accepted)]

\* Lines 201-218, `d` being what the language-agnostic changes came to. An exception out
\* of tryAcceptChanges ends the pass before any event.
ReconcileLanguages(pv, changes, d) ==
  IF d.threw THEN [cache |-> d.cache, threw |-> TRUE, events |-> <<>>]
  ELSE Emit(d.accepted, tryAcceptLanguages(pv, d.cache, changes.languageSpecific, 1, <<>>))

\* reconcilePreferences on the cache `c`: the cache it leaves and the events it fires.
reconcilePreferences(pv, c, changes) ==
  ReconcileLanguages(pv, changes, tryAcceptChanges(pv, c, changes.default, NoLang, 1, <<>>))

----------------------------------------------------------------------------
(* inspect *)

\* An inspection that hands down the Default value to a scope that holds none.
doInspectInherited(pv, preferenceName, scope, resourceUri) ==
  IF ~getProvider(scope) THEN Undef
  ELSE IF isUndefined(ProviderGet(pv, scope, preferenceName, resourceUri, NoLang))
  THEN ProviderGet(pv, Default, preferenceName, resourceUri, NoLang)
  ELSE ProviderGet(pv, scope, preferenceName, resourceUri, NoLang)

\* doInspectInScope (lines 419-422): provider && provider.get(preferenceName, resourceUri).
doInspectInScope(pv, preferenceName, scope, resourceUri) ==
  IF getProvider(scope) THEN ProviderGet(pv, scope, preferenceName, resourceUri, NoLang)
  ELSE Undef

\* inspectInScope (lines 410-413).
inspectInScope(pv, preferenceName, scope, resourceUri) ==
  doInspectInScope(pv, preferenceName, scope, resourceUri)

\* inspect (lines 396-409).
inspect(pv, preferenceName, resourceUri) ==
  [preferenceName |-> preferenceName,
   defaultValue |-> inspectInScope(pv, preferenceName, Default, resourceUri),
   globalValue |-> inspectInScope(pv, preferenceName, User, resourceUri),
   workspaceValue |-> inspectInScope(pv, preferenceName, Workspace, resourceUri),
   workspaceFolderValue |-> inspectInScope(pv, preferenceName, Folder, resourceUri)]

\* A caller inspects a name.
Inspect(preferenceName, resourceUri) ==
  /\ ret' = [NoCall EXCEPT !.op = "inspect", !.name = preferenceName,
                           !.resourceUri = resourceUri,
                           !.inspected = inspect(prov, preferenceName, resourceUri)]
  /\ events' = <<>>
  /\ UNCHANGED <<prov, preferenceProviders, cachedPreference, writes, life, outside>>

----------------------------------------------------------------------------
(* The life cycle: readiness, the providers, disposal *)

\* Deferred: a promise that settles once; resolve and reject on a settled one do nothing.
Pending == [state |-> "pending", error |-> ""]

Fulfilled == [state |-> "fulfilled", error |-> ""]

Deferred_resolve(d) == IF d.state = "pending" THEN Fulfilled ELSE d

\* A promise that can be rejected over and over: the last rejection is the one it shows.
Deferred_rejectAgain(d, e) == [state |-> "rejected", error |-> e]

Deferred_reject(d, e) == IF d.state = "pending" THEN [state |-> "rejected", error |-> e] ELSE d

\* Line 145: the error readiness is rejected with on disposal.
ErrDisposed == "preference service is disposed"

\* The error the provider of `scope` rejects its own readiness with.
ErrReady(scope) == "the " \o getScopeNames[scope + 1] \o " provider is not ready"

\* initializeProviders has left its loop (lines 172 and 174).
Done == Folder + 1

\* The disposables of the engine: the two emitters of line 114 (by the event they fire),
\* the rejection of readiness of line 145, and one subscription per provider (line 167).
Emitters == {"onPreferenceChanged", "onPreferencesChanged"}

RejectReady == "ready.reject"

Subscription(scope) == "onDidPreferencesChanged of " \o getScopeNames[scope + 1]

\* What toDispose holds when init has pushed the rejection, before the first provider.
Constructed == Emitters \cup {RejectReady}

\* The events of `fired` that reach a listener: a disposed emitter has none.
Delivered(fired) ==
  SelectSeq(fired, LAMBDA e : e.type \in Emitters => e.type \in toDispose)

\* The engine as it is when initializeProviders has gone through every provider.
Initialized ==
  /\ ready = Fulfilled
  /\ providerReady = [s \in Scopes |-> "ready"]
  /\ awaiting = Done
  /\ toDispose = Constructed \cup {Subscription(s) : s \in Scopes}

\* Lines 164-169: the provider of `scope` is fetched, registered and subscribed to, and
\* the loop waits for it.
Fetched(scope) ==
  /\ preferenceProviders' = preferenceProviders \cup {scope}
  /\ toDispose' = toDispose \cup {Subscription(scope)}
  /\ awaiting' = scope

\* A loop that takes the first ready provider for all of them: it resolves readiness at
\* once.
ContinuedToReady(scope) ==
  /\ ready' = Deferred_resolve(ready)
  /\ awaiting' = Done
  /\ UNCHANGED <<preferenceProviders, toDispose>>

\* The awaited provider is ready: the loop goes on to the next scope, and resolves
\* readiness after the last (line 172).
Continued(scope) ==
  IF scope = getScopes[Len(getScopes)]
  THEN /\ ready' = Deferred_resolve(ready)
       /\ awaiting' = Done
       /\ UNCHANGED <<preferenceProviders, toDispose>>
  ELSE /\ Fetched(getScopes[scope + 2])
       /\ UNCHANGED ready

\* A loop that catches the rejection of a provider and goes on to the next scope.
FailedGoingOn(scope) ==
  IF scope = getScopes[Len(getScopes)]
  THEN /\ ready' = Deferred_reject(ready, ErrReady(scope))
       /\ awaiting' = Done
       /\ UNCHANGED <<preferenceProviders, toDispose>>
  ELSE /\ Fetched(getScopes[scope + 2])
       /\ UNCHANGED ready

\* The awaited provider has rejected: line 174 rejects readiness with its error.
Failed(scope) ==
  /\ ready' = Deferred_reject(ready, ErrReady(scope))
  /\ awaiting' = Done
  /\ UNCHANGED <<preferenceProviders, toDispose>>

\* initializeProviders resumes from `await provider.ready` (line 170).
Awaited ==
  /\ awaiting \in Scopes
  /\ providerReady[awaiting] # "pending"
  /\ IF providerReady[awaiting] = "ready" THEN Continued(awaiting) ELSE Failed(awaiting)
  /\ ret' = [NoCall EXCEPT !.op = "awaited", !.scope = awaiting]
  /\ events' = <<>>
  /\ UNCHANGED <<prov, cachedPreference, writes, providerReady, outside>>

\* The provider of `scope` becomes ready.
ProviderReady(scope) ==
  /\ providerReady[scope] = "pending"
  /\ providerReady' = [providerReady EXCEPT ![scope] = "ready"]
  /\ ret' = [NoCall EXCEPT !.op = "providerReady", !.scope = scope]
  /\ events' = <<>>
  /\ UNCHANGED <<prov, preferenceProviders, cachedPreference, writes, ready, awaiting, toDispose, outside>>

\* The provider of `scope` rejects its readiness.
ProviderRejected(scope) ==
  /\ providerReady[scope] = "pending"
  /\ providerReady' = [providerReady EXCEPT ![scope] = "rejected"]
  /\ ret' = [NoCall EXCEPT !.op = "providerRejected", !.scope = scope]
  /\ events' = <<>>
  /\ UNCHANGED <<prov, preferenceProviders, cachedPreference, writes, ready, awaiting, toDispose, outside>>

\* DisposableCollection.dispose on the collection `held`, readiness being `r`: every
\* disposable held is disposed and leaves the collection; the one of line 145 rejects
\* readiness.
DisposeAll(held, r) ==
  [toDispose |-> {},
   ready |-> IF RejectReady \in held THEN Deferred_reject(r, ErrDisposed) ELSE r]

\* A dispose that gives up the writes on their way.
DisposeCancelling ==
  /\ toDispose' = DisposeAll(toDispose, ready).toDispose
  /\ ready' = DisposeAll(toDispose, ready).ready
  /\ writes' = [i \in 1..Len(writes) |->
                  IF writes[i].outcome = "pending"
                  THEN [writes[i] EXCEPT !.outcome = "cancelled"] ELSE writes[i]]
  /\ ret' = [NoCall EXCEPT !.op = "dispose"]
  /\ events' = <<>>
  /\ UNCHANGED <<prov, preferenceProviders, cachedPreference, providerReady, awaiting, outside>>

\* dispose (lines 149-151).
Dispose ==
  /\ toDispose' = DisposeAll(toDispose, ready).toDispose
  /\ ready' = DisposeAll(toDispose, ready).ready
  /\ ret' = [NoCall EXCEPT !.op = "dispose"]
  /\ events' = <<>>
  /\ UNCHANGED <<prov, preferenceProviders, cachedPreference, writes, providerReady, awaiting, outside>>

----------------------------------------------------------------------------
(* A provider changes and reports it *)

\* The provider store `store` with the updates written: each is [name, language, newValue].
RECURSIVE ApplyUpdates(_, _)
ApplyUpdates(store, updates) ==
  IF Len(updates) = 0 THEN store
  ELSE ApplyUpdates(
         [store EXCEPT ![<<Head(updates).name, Head(updates).language>>] = Head(updates).newValue],
         Tail(updates))

\* The raw change a provider reports for an update.
RawChange(scope, update, domain) ==
  [preferenceName |-> update.name, oldValue |-> prov[scope][<<update.name, update.language>>],
   newValue |-> update.newValue, scope |-> scope, domain |-> domain]

\* The updates of one language (NoLang: the language-agnostic ones), as raw changes.
RECURSIVE ChangesOf(_, _, _, _)
ChangesOf(scope, updates, language, domain) ==
  IF Len(updates) = 0 THEN <<>>
  ELSE (IF Head(updates).language = language
        THEN <<RawChange(scope, Head(updates), domain)>> ELSE <<>>)
       \o ChangesOf(scope, Tail(updates), language, domain)

\* The languages of the updates, in the order they first occur.
RECURSIVE LanguagesOf(_, _)
LanguagesOf(updates, seen) ==
  IF Len(updates) = 0 THEN <<>>
  ELSE IF Head(updates).language = NoLang \/ Head(updates).language \in seen
  THEN LanguagesOf(Tail(updates), seen)
  ELSE <<Head(updates).language>>
       \o LanguagesOf(Tail(updates), seen \cup {Head(updates).language})

\* The batch { default, languageSpecific } the provider of `scope` emits for the updates.
ChangeBatch(scope, updates, domain) ==
  [default |-> ChangesOf(scope, updates, NoLang, domain),
   languageSpecific |->
     [i \in 1..Len(LanguagesOf(updates, {})) |->
        [language |-> LanguagesOf(updates, {})[i],
         changes |-> ChangesOf(scope, updates, LanguagesOf(updates, {})[i], domain)]]]

\* The engine has reconciled the batch: `r` is what reconcilePreferences came to. An
\* event fired on a disposed emitter reaches no listener.
Reconciled(scope, batch, r) ==
  /\ cachedPreference' = r.cache
  /\ events' = Delivered(r.events)
  /\ ret' = [NoCall EXCEPT !.op = "change", !.scope = scope, !.batch = batch,
                           !.threw = IF r.threw THEN "TypeError" ELSE ""]

\* The engine is not subscribed to the provider of `scope`: the batch reaches no one.
Unheard(scope, batch) ==
  /\ ret' = [NoCall EXCEPT !.op = "unheard", !.scope = scope, !.batch = batch]
  /\ events' = <<>>
  /\ UNCHANGED cachedPreference

\* The provider of `scope` has changed (its store holds the new values) and fires
\* onDidPreferencesChanged; the engine, while subscribed to it, reconciles the batch.
ProviderChanged(scope, updates, domain) ==
  /\ getProvider(scope)
  /\ Len(updates) > 0
  /\ \A i \in 1..Len(updates) :
       /\ prov[scope][<<updates[i].name, updates[i].language>>] # updates[i].newValue
       /\ \A j \in 1..Len(updates) :
            i # j => <<updates[i].name, updates[i].language>> # <<updates[j].name, updates[j].language>>
  /\ prov' = [prov EXCEPT ![scope] = ApplyUpdates(prov[scope], updates)]
  /\ IF Subscription(scope) \in toDispose
     THEN Reconciled(scope, ChangeBatch(scope, updates, domain),
                     reconcilePreferences([prov EXCEPT ![scope] = ApplyUpdates(prov[scope], updates)],
                                          cachedPreference, ChangeBatch(scope, updates, domain)))
     ELSE Unheard(scope, ChangeBatch(scope, updates, domain))
  /\ UNCHANGED <<preferenceProviders, writes, life, outside>>

----------------------------------------------------------------------------
(* What lies outside the preference service *)

\* The output of a debounce that no event has reached since its timer ran out; else <<output>>.
NoOutput == <<>>
NoWorkspace == [uri |-> "", multiRoot |-> FALSE]
NoDelegate == [kind |-> "undefined", n |-> 0]

\* No Menu has been created (one created and disposed stands for it), and no workspace
\* is open.
\* No Menu has been made.
MenuAtRest ==
  /\ menuItems = <<>>
  /\ context = {}
  /\ menuGroups = <<>>
  /\ contextKeys = {}
  /\ buildHandle = FALSE
  /\ contextOutput = NoOutput
  /\ menuDisposed = TRUE

\* No WorkspacePreferenceProvider has been made.
WorkspaceProviderAtRest ==
  /\ workspace = NoWorkspace
  /\ delegate = NoDelegate
  /\ toDisposeOnEnsureDelegateUpToDate = {}
  /\ created = 0
  /\ disposedProviders = {}

Elsewhere == MenuAtRest /\ WorkspaceProviderAtRest

----------------------------------------------------------------------------
(* Menu: the items of a menu, sorted and grouped (menu-service.ts) *)

\* An item has no group, no order (an order n is <<n>>), no when expression.
NoGroup == <<>>
NoOrder == <<>>
NoWhen == "undefined"

navigation == <<"n", "a", "v", "i", "g", "a", "t", "i", "o", "n">>

Alphabet ==
  <<"a", "b", "c", "d", "e", "f", "g", "h", "i", "j", "k", "l", "m",
    "n", "o", "p", "q", "r", "s", "t", "u", "v", "w", "x", "y", "z">>

CharRank(ch) == CHOOSE i \in 1..Len(Alphabet) : Alphabet[i] = ch

\* a.localeCompare(b) of two strings of lower-case letters: negative, zero or positive.
RECURSIVE localeCompare(_, _)
localeCompare(a, b) ==
  IF Len(a) = 0 /\ Len(b) = 0 THEN 0
  ELSE IF Len(a) = 0 THEN -1
  ELSE IF Len(b) = 0 THEN 1
  ELSE IF CharRank(Head(a)) < CharRank(Head(b)) THEN -1
  ELSE IF CharRank(Head(a)) > CharRank(Head(b)) THEN 1
  ELSE localeCompare(Tail(a), Tail(b))

\* Command.compareCommands: by label.
compareCommands(a, b) == localeCompare(a.command, b.command)

\* `a.order || 0`
Prio(item) == IF item.order = NoOrder THEN 0 ELSE item.order[1]

\* Lines 217-233 of menuItemsSorter: the order inside a group.
SortOnPriority(a, b) ==
  IF Prio(a) < Prio(b) THEN -1
  ELSE IF Prio(a) > Prio(b) THEN 1
  ELSE compareCommands(a, b)

\* A sorter that takes 'navigation' for a group as any other.
menuItemsSorterLexical(a, b) ==
  IF a.group # b.group /\ a.group = NoGroup THEN 1
  ELSE IF a.group # b.group /\ b.group = NoGroup THEN -1
  ELSE IF a.group # b.group /\ localeCompare(a.group, b.group) # 0
  THEN localeCompare(a.group, b.group)
  ELSE SortOnPriority(a, b)

\* menuItemsSorter (lines 195-234).
menuItemsSorter(a, b) ==
  IF a.group # b.group /\ a.group = NoGroup THEN 1
  ELSE IF a.group # b.group /\ b.group = NoGroup THEN -1
  ELSE IF a.group # b.group /\ a.group = navigation THEN -1
  ELSE IF a.group # b.group /\ b.group = navigation THEN 1
  ELSE IF a.group # b.group /\ localeCompare(a.group, b.group) # 0
  THEN localeCompare(a.group, b.group)
  ELSE SortOnPriority(a, b)

\* The place of `item` in the sorted `items`: behind the last one that does not come
\* after it.
PlaceOf(items, item) ==
  IF \E i \in 1..Len(items) : menuItemsSorter(items[i], item) <= 0
  THEN CHOOSE i \in 1..Len(items) :
         /\ menuItemsSorter(items[i], item) <= 0
         /\ \A j \in 1..Len(items) : menuItemsSorter(items[j], item) <= 0 => j <= i
  ELSE 0

\* The only element of a set of one: the way to compute a value once and name it.
The(set) == CHOOSE x \in set : TRUE

\* `item` put at its place in the sorted `items`.
Inserted(items, item) ==
  The({SubSeq(items, 1, place) \o <<item>> \o SubSeq(items, place + 1, Len(items)) :
         place \in {PlaceOf(items, item)}})

\* menuItems.sort(menuItemsSorter): a stable sort.
RECURSIVE sort(_)
sort(items) ==
  IF Len(items) = 0 THEN <<>>
  ELSE The({Inserted(sorted, items[Len(items)]) :
              sorted \in {sort(SubSeq(items, 1, Len(items) - 1))}})

\* Lines 136-143: the item joins the last group when that has its group name, and opens
\* a new group otherwise.
GroupPushed(groups, item) ==
  IF Len(groups) = 0 \/ groups[Len(groups)][1] # item.group
  THEN Append(groups, <<item.group, <<item>>>>)
  ELSE [groups EXCEPT ![Len(groups)] = <<item.group, Append(groups[Len(groups)][2], item)>>]

RECURSIVE GroupedFrom(_, _, _)
GroupedFrom(groups, items, i) ==
  IF i > Len(items) THEN groups
  ELSE The({GroupedFrom(pushed, items, i + 1) : pushed \in {GroupPushed(groups, items[i])}})

\* contextKeyService.getKeysInWhen(when), contextKeyService.match(when)
getKeysInWhen(when) == IF when = NoWhen THEN {} ELSE {when}

match(when) == when = NoWhen \/ when \in context

\* What _build leaves in _menuGroups and _contextKeys for the items of the registry.
BuiltGroups(items) == The({GroupedFrom(<<>>, sorted, 1) : sorted \in {sort(items)}})

BuiltKeys(items) == UNION {getKeysInWhen(items[i].when) : i \in 1..Len(items)}

\* Lines 170-178: the items of a group whose when expression matches.
activeActions(items) == SelectSeq(items, LAMBDA item : match(item.when))

\* getMenuNodes (lines 167-185).
getMenuNodes ==
  SelectSeq([g \in 1..Len(menuGroups) |-> <<menuGroups[g][1], activeActions(menuGroups[g][2])>>],
            LAMBDA group : Len(group[2]) > 0)

----------------------------------------------------------------------------
(* Menu: the constructor, the two debounced listeners, dispose *)

\* _onDidChange.fire(e): a disposed emitter fires nothing.
OnDidChange(e) ==
  IF menuDisposed THEN <<>> ELSE <<[type |-> "onDidChange", menu |-> e]>>

\* What a step of the menu, the registry or the context key service leaves alone.
MenuStep(op) ==
  /\ ret' = [NoCall EXCEPT !.op = op]
  /\ UNCHANGED <<service, workspaceProvider>>

\* The constructor (lines 98-124) has run for a registry holding `items`: the first
\* _build is over, its event fired before anyone could listen.
MenuCreated(items) ==
  /\ menuItems = items
  /\ menuGroups = BuiltGroups(items)
  /\ contextKeys = BuiltKeys(items)
  /\ buildHandle = FALSE
  /\ contextOutput = NoOutput
  /\ menuDisposed = FALSE

\* A listener that rebuilds at once, without the debounce.
BuildAtOnce ==
  /\ menuGroups' = BuiltGroups(menuItems')
  /\ contextKeys' = BuiltKeys(menuItems')
  /\ events' = OnDidChange("this")
  /\ UNCHANGED buildHandle

\* Lines 104-109: the registry has fired onDidChangeMenu for the MenuId of the Menu; the
\* debounce, while the Menu listens, starts its timer anew.
DebouncedBuild ==
  /\ buildHandle' = (IF menuDisposed THEN buildHandle ELSE TRUE)
  /\ events' = <<>>
  /\ UNCHANGED <<menuGroups, contextKeys>>

\* menuRegistry.registerMenuItem(id, item)
MenuItemRegistered(item) ==
  /\ Len(menuItems) < MaxItems
  /\ \A i \in 1..Len(menuItems) : menuItems[i] # item
  /\ menuItems' = Append(menuItems, item)
  /\ DebouncedBuild
  /\ MenuStep("registryChanged")
  /\ UNCHANGED <<context, contextOutput, menuDisposed>>

\* The registration of the i-th item is disposed.
MenuItemUnregistered(i) ==
  /\ i \in 1..Len(menuItems)
  /\ menuItems' = SubSeq(menuItems, 1, i - 1) \o SubSeq(menuItems, i + 1, Len(menuItems))
  /\ DebouncedBuild
  /\ MenuStep("registryChanged")
  /\ UNCHANGED <<context, contextOutput, menuDisposed>>

\* The registry has fired onDidChangeMenu for another MenuId: Event.filter drops it.
OtherMenuChanged ==
  /\ events' = <<>>
  /\ MenuStep("otherMenuChanged")
  /\ UNCHANGED menu

\* The timer of the first debounce has run out: _build (lines 126-161), if the Menu
\* still listens.
BuildTimerFired ==
  /\ buildHandle
  /\ buildHandle' = FALSE
  /\ IF menuDisposed
     THEN events' = <<>> /\ UNCHANGED <<menuGroups, contextKeys>>
     ELSE /\ menuGroups' = BuiltGroups(menuItems)
          /\ contextKeys' = BuiltKeys(menuItems)
          /\ events' = OnDidChange("this")
  /\ MenuStep("buildTimer")
  /\ UNCHANGED <<menuItems, context, contextOutput, menuDisposed>>

\* A merger that keeps what the last event says.
MergedLastWins(last, keys) == keys \cap contextKeys # {}

\* Line 118: `last || event.payload.affectsSome(this._contextKeys)`
Merged(last, keys) ==
  IF last = NoOutput THEN keys \cap contextKeys # {}
  ELSE last[1] \/ keys \cap contextKeys # {}

\* The context keys `keys` have changed: onDidChangeContext; the second debounce, while
\* the Menu listens, merges the event and starts its timer anew.
ContextChanged(keys) ==
  /\ keys # {}
  /\ context' = (context \ keys) \cup (keys \ context)
  /\ contextOutput' = (IF menuDisposed THEN contextOutput ELSE <<Merged(contextOutput, keys)>>)
  /\ events' = <<>>
  /\ ret' = [NoCall EXCEPT !.op = "contextChanged", !.keys = keys]
  /\ UNCHANGED <<service, workspaceProvider>>
  /\ UNCHANGED <<menuItems, menuGroups, contextKeys, buildHandle, menuDisposed>>

\* The timer of the second debounce has run out: `(e) => e && this._onDidChange.fire(undefined)`
ContextTimerFired ==
  /\ contextOutput # NoOutput
  /\ contextOutput' = NoOutput
  /\ events' = (IF contextOutput[1] THEN OnDidChange("undefined") ELSE <<>>)
  /\ MenuStep("contextTimer")
  /\ UNCHANGED <<menuItems, context, menuGroups, contextKeys, buildHandle, menuDisposed>>

\* Menu.dispose: the two listeners and the emitter are disposed; a timer that runs keeps
\* running.
MenuDispose ==
  /\ menuDisposed' = TRUE
  /\ events' = <<>>
  /\ MenuStep("menuDispose")
  /\ UNCHANGED <<menuItems, context, menuGroups, contextKeys, buildHandle, contextOutput>>

----------------------------------------------------------------------------
(* WorkspacePreferenceProvider (menu-service.ts, lines 236-346) *)

\* The provider of the Folder scope, which is one; a provider of the factory, which makes
\* a new one at every call.
folderPreferenceProvider == [kind |-> "folder", n |-> 0]

workspaceFileProviderFactory(n) == [kind |-> "file", n |-> n]

\* What toDisposeOnEnsureDelegateUpToDate holds: the delegate and the subscription to it.
DelegateItself(d) == [what |-> "provider", of |-> d]

DelegateSubscription(d) == [what |-> "subscription", of |-> d]

\* The state of the provider as one value.
ProviderState ==
  [delegate |-> delegate, toDispose |-> toDisposeOnEnsureDelegateUpToDate,
   created |-> created, disposed |-> disposedProviders]

\* new WorkspacePreferenceProvider, before init.
NewWorkspaceProvider ==
  [delegate |-> NoDelegate, toDispose |-> {}, created |-> 0, disposed |-> {}]

\* createDelegate (lines 296-308), `made` providers having come from the factory so far.
createDelegate(w, made) ==
  IF w = NoWorkspace THEN NoDelegate
  ELSE IF ~w.multiRoot THEN folderPreferenceProvider
  ELSE workspaceFileProviderFactory(made + 1)

\* toDisposeOnEnsureDelegateUpToDate.dispose(): the providers that are disposed with it.
DisposedWith(collection) == {x.of : x \in {y \in collection : y.what = "provider"}}

\* An ensureDelegateUpToDate that keeps what it had subscribed to.
ensureDelegateKeepingAll(st, w) ==
  IF createDelegate(w, st.created) = st.delegate THEN st
  ELSE [delegate |-> createDelegate(w, st.created),
        toDispose |-> st.toDispose \cup
                      (IF createDelegate(w, st.created) = NoDelegate THEN {}
                       ELSE {DelegateItself(createDelegate(w, st.created)),
                             DelegateSubscription(createDelegate(w, st.created))}),
        created |-> IF createDelegate(w, st.created).kind = "file"
                    THEN st.created + 1 ELSE st.created,
        disposed |-> st.disposed]

\* ensureDelegateUpToDate (lines 279-294) in the workspace w.
ensureDelegateUpToDate(st, w) ==
  IF createDelegate(w, st.created) = st.delegate THEN st
  ELSE [delegate |-> createDelegate(w, st.created),
        toDispose |-> IF createDelegate(w, st.created) = NoDelegate THEN {}
                      ELSE {DelegateItself(createDelegate(w, st.created)),
                            DelegateSubscription(createDelegate(w, st.created))},
        created |-> IF createDelegate(w, st.created).kind = "file"
                    THEN st.created + 1 ELSE st.created,
        disposed |-> st.disposed \cup DisposedWith(st.toDispose)]

\* The provider is left in the state st.
Becomes(st) ==
  /\ delegate' = st.delegate
  /\ toDisposeOnEnsureDelegateUpToDate' = st.toDispose
  /\ created' = st.created
  /\ disposedProviders' = st.disposed

\* `get delegate()` (lines 273-278)
delegateGetter(st, w) == IF st.delegate = NoDelegate THEN ensureDelegateUpToDate(st, w) ELSE st

\* init (lines 261-265) has run in the workspace w.
WorkspaceProviderCreated(w) ==
  /\ workspace = w
  /\ delegate = ensureDelegateUpToDate(NewWorkspaceProvider, w).delegate
  /\ toDisposeOnEnsureDelegateUpToDate = ensureDelegateUpToDate(NewWorkspaceProvider, w).toDispose
  /\ created = ensureDelegateUpToDate(NewWorkspaceProvider, w).created
  /\ disposedProviders = ensureDelegateUpToDate(NewWorkspaceProvider, w).disposed

\* The workspace service has moved to the workspace w and fired
\* onWorkspaceLocationChanged: line 264.
WorkspaceLocationChanged(w) ==
  /\ w # workspace
  /\ w # NoWorkspace /\ w.multiRoot => created < MaxDelegates
  /\ workspace' = w
  /\ Becomes(ensureDelegateUpToDate(ProviderState, w))
  /\ events' = <<>>
  /\ ret' = [NoCall EXCEPT !.op = "locationChanged"]
  /\ UNCHANGED <<service, menu>>

\* The provider d fires onDidPreferencesChanged: the listener of lines 289-290, where it
\* is subscribed and d not disposed, emits the batch again.
DelegateChanged(d) ==
  /\ events' = (IF DelegateSubscription(d) \in toDisposeOnEnsureDelegateUpToDate
                   /\ d \notin disposedProviders
                THEN <<[type |-> "onDidPreferencesChanged", from |-> d]>>
                ELSE <<>>)
  /\ ret' = [NoCall EXCEPT !.op = "delegateChanged", !.from = d]
  /\ UNCHANGED <<service, menu, workspaceProvider>>

\* doGet (lines 310-313): v is what the delegate holds.
doGet(v) ==
  /\ Becomes(delegateGetter(ProviderState, workspace))
  /\ ret' = [NoCall EXCEPT !.op = "doGet",
               !.value = IF delegateGetter(ProviderState, workspace).delegate = NoDelegate
                         THEN Undef ELSE v]
  /\ events' = <<>>
  /\ UNCHANGED <<service, menu, workspace>>

\* doResolve (lines 315-318)
doResolveOfWorkspace(v) ==
  /\ Becomes(delegateGetter(ProviderState, workspace))
  /\ ret' = [NoCall EXCEPT !.op = "doResolve",
               !.result = IF delegateGetter(ProviderState, workspace).delegate = NoDelegate
                          THEN ValueOnly(Undef)
                          ELSE [ValueOnly(v) EXCEPT !.configUri = 1]]
  /\ events' = <<>>
  /\ UNCHANGED <<service, menu, workspace>>

\* doSetPreference (lines 330-336): done is what the delegate answers.
doSetPreference(done) ==
  /\ Becomes(delegateGetter(ProviderState, workspace))
  /\ ret' = [NoCall EXCEPT !.op = "doSetPreference",
               !.returned = IF delegateGetter(ProviderState, workspace).delegate = NoDelegate
                            THEN FALSE ELSE done]
  /\ events' = <<>>
  /\ UNCHANGED <<service, menu, workspace>>

\* The workspaces: none, two folders, two multi-root workspaces.
Workspaces ==
  {NoWorkspace,
   [uri |-> "file:///w", multiRoot |-> FALSE], [uri |-> "file:///v", multiRoot |-> FALSE],
   [uri |-> "file:///m", multiRoot |-> TRUE], [uri |-> "file:///n", multiRoot |-> TRUE]}

\* The providers there are.
Providers == {folderPreferenceProvider} \cup {workspaceFileProviderFactory(n) : n \in 1..created}

----------------------------------------------------------------------------
(* Menus to build *)

Item(command, group, order, when) ==
  [command |-> <<command>>, group |-> group, order |-> order, when |-> when]

\* Items of three named groups and of none, with and without order and when.
GroupedItems ==
  {Item("a", navigation, NoOrder, NoWhen),
   Item("b", navigation, <<-1>>, "k1"),
   Item("c", <<"a">>, <<1>>, NoWhen),
   Item("d", NoGroup, <<1>>, "k1"),
   Item("e", <<"z">>, NoOrder, NoWhen)}

\* Items whose when expressions name one key each, or none.
KeyedItems ==
  {Item("a", navigation, NoOrder, "k1"),
   Item("b", navigation, <<1>>, NoWhen),
   Item("c", NoGroup, NoOrder, "k2")}

----------------------------------------------------------------------------
(* The specifications *)

\* The sequences of at most n elements of S.
RECURSIVE SeqsUpTo(_, _)
SeqsUpTo(S, n) ==
  IF n = 0 THEN {<<>>}
  ELSE SeqsUpTo(S, n - 1) \cup {Append(q, x) : q \in SeqsUpTo(S, n - 1), x \in S}

Update(preferenceName, language, newValue) ==
  [name |-> preferenceName, language |-> language, newValue |-> newValue]

\* No provider holds a value.
EmptyStore == [s \in Scopes |-> [slot \in Slots |-> Undef]]

\* The stores in which only the slots of `slots` (pairs <<scope, slot>>) hold a value, each
\* one of `values`.
RECURSIVE StoresOver(_, _)
StoresOver(slots, values) ==
  IF slots = {} THEN {EmptyStore}
  ELSE LET x == CHOOSE y \in slots : TRUE IN
       {[st EXCEPT ![x[1]][x[2]] = v] : st \in StoresOver(slots \ {x}, values), v \in values}

\* The main specification: the engine once initializeProviders has run to its end (every
\* scope has its provider), the providers holding what their files held, nothing cached.
\* Callers resolve "p" and "q" without a default while the providers change: "p" (not
\* valid in Folder) in any of its valid scopes, "q" (valid in Folder) in Default and User.
SpecValues == {Undef, Prim(0), Prim(1), R1, R2}

SpecUpdates(scope) ==
  {Update(nP, NoLang, v) : v \in IF isValidInScope(nP, scope) THEN SpecValues ELSE {}}
  \cup {Update(nQ, NoLang, v) : v \in IF scope <= User THEN {Undef, Prim(1)} ELSE {}}

\* "q" set in every scope: 0, 1, {a:1, b:2}, {b:3, c:4}.
QValues == <<Prim(0), Prim(1), R1, R2>>

\* The store `st` with "q" set so.
WithQ(st) ==
  [s \in Scopes |-> [st[s] EXCEPT ![<<nQ, NoLang>>] = QValues[s + 1]]]

SpecStores ==
  LET ps == StoresOver({<<s, <<nP, NoLang>>>> : s \in {Default, User, Workspace}}, SpecValues)
  IN ps \cup {WithQ(st) : st \in ps}

Init ==
  /\ prov \in SpecStores
  /\ preferenceProviders = Scopes
  /\ cachedPreference = [n \in {} |-> <<>>]
  /\ events = <<>>
  /\ writes = <<>>
  /\ ret = NoCall
  /\ Elsewhere
  /\ Initialized

Next ==
  \/ \E n \in {nP, nQ} : Resolve(n, Undef, NoUri, NoLang)
  \/ \E s \in Scopes : \E updates \in SeqsUpTo(SpecUpdates(s), MaxBatch) :
       ProviderChanged(s, updates, <<>>)

Spec == Init /\ [][Next]_vars

\* Dotted lookup: the providers hold "a", "a.b" and "a.b.c" in User scope and do not
\* change; callers resolve these names without a default.
LookUpStores ==
  {[s \in Scopes |->
      IF s = User
      THEN [EmptyStore[s] EXCEPT ![<<nA, NoLang>>] = va, ![<<nAB, NoLang>>] = vab,
                                 ![<<nABC, NoLang>>] = vabc]
      ELSE EmptyStore[s]]
   : va \in {Undef, Prim(0), Prim(1), RBC, RC}, vab \in {Undef, Prim(0), RC},
     vabc \in {Undef, Prim(1)}}

InitLookUp ==
  /\ prov \in LookUpStores
  /\ preferenceProviders = Scopes
  /\ cachedPreference = [n \in {} |-> <<>>]
  /\ events = <<>>
  /\ writes = <<>>
  /\ ret = NoCall
  /\ Elsewhere
  /\ Initialized

NextLookUp ==
  \E n \in {nA, nAB, nABC, nEmpty} : Resolve(n, Undef, NoUri, NoLang)

SpecLookUp == InitLookUp /\ [][NextLookUp]_vars

\* Reads with defaults, and callers that write into what they were handed: the providers
\* hold "p" in Default and User scope and do not change.
ReadDefaults == {Undef, Prim(1), R2}

InitRead ==
  /\ prov \in StoresOver({<<s, <<nP, NoLang>>>> : s \in {Default, User}}, {Undef, Prim(0), R1})
  /\ preferenceProviders = Scopes
  /\ cachedPreference = [n \in {} |-> <<>>]
  /\ events = <<>>
  /\ writes = <<>>
  /\ ret = NoCall
  /\ Elsewhere
  /\ Initialized

NextRead ==
  \/ \E d \in ReadDefaults : Resolve(nP, d, NoUri, NoLang)
  \/ Mutate(kA, 7)
  \/ MutateResult(7)

SpecRead == InitRead /\ [][NextRead]_vars

\* Language overlay: the providers hold and change "p", language-agnostic and for json,
\* in Default and User scope; callers resolve it with and without the language.
LangValues(language) ==
  IF language = NoLang THEN {Undef, Prim(1), R1, R2} ELSE {Undef, Prim(0), R2}

InitLang ==
  /\ prov \in {[s \in Scopes |->
                  IF s <= User
                  THEN [EmptyStore[s] EXCEPT ![<<nP, NoLang>>] = plain[s + 1],
                                             ![<<nP, "json">>] = json[s + 1]]
                  ELSE EmptyStore[s]]
               : plain \in LangValues(NoLang) \X LangValues(NoLang),
                 json \in LangValues("json") \X LangValues("json")}
  /\ preferenceProviders = Scopes
  /\ cachedPreference = [n \in {} |-> <<>>]
  /\ events = <<>>
  /\ writes = <<>>
  /\ ret = NoCall
  /\ Elsewhere
  /\ Initialized

NextLang ==
  \/ \E l \in LangArgs : Resolve(nP, Undef, NoUri, l)
  \/ \E l \in Languages : HasLanguageSpecific(nP, l, NoUri)
  \/ \E s \in {Default, User} : \E l \in LangArgs :
       \E updates \in SeqsUpTo({Update(nP, l, v) : v \in LangValues(l)}, MaxBatch) :
         ProviderChanged(s, updates, <<>>)

SpecLang == InitLang /\ [][NextLang]_vars

\* Writes: callers set "p", the section "s" and "s.p", in a scope or in none, with a
\* resource, an empty one or none, while the providers are registered in the order of the
\* scopes (initializeProviders may still be on its way).
SetNames == {nP, <<"s">>, <<"s", ".", "p">>}

InitSet ==
  /\ prov = EmptyStore
  /\ \E last \in Scopes :
       /\ preferenceProviders = {s \in Scopes : s <= last}
       /\ providerReady = [s \in Scopes |-> IF s < last THEN "ready" ELSE "pending"]
       /\ awaiting = last
       /\ toDispose = Constructed \cup {Subscription(s) : s \in {t \in Scopes : t <= last}}
  /\ ready = Pending
  /\ cachedPreference = [n \in {} |-> <<>>]
  /\ events = <<>>
  /\ writes = <<>>
  /\ ret = NoCall
  /\ Elsewhere

NextSet ==
  \/ \E n \in SetNames : \E s \in Scopes \cup {NoScope} : \E u \in UriArgs \cup {EmptyUri} :
       Set(n, Prim(1), s, u)
  \/ \E i \in 1..MaxWrites : \E written \in BOOLEAN : SetSettled(i, written)
  \/ \E i \in 1..MaxWrites : SetThrown(i)

SpecSet == InitSet /\ [][NextSet]_vars

\* The events of a pass: the engine once initialized, no provider holding a value. The
\* providers of Default and User set and delete "p" (not valid in Folder) and "q" (valid
\* in Folder), plain and for json, the Workspace provider "p", in batches of several
\* changes whose domain is one resource; callers resolve "p" for that resource in between.
EmitSlots(scope) ==
  {<<nP, NoLang>>} \cup (IF scope <= User THEN {nP, nQ} \X LangArgs ELSE {})

\* The provider of `scope` sets the slot when it holds nothing, and deletes it when it
\* holds a value.
Toggled(scope, slot) ==
  Update(slot[1], slot[2], IF isUndefined(prov[scope][slot]) THEN Prim(1) ELSE Undef)

\* The domain of every change: one resource.
EmitDomain == <<"file:///w/f">>

InitEmit ==
  /\ prov = EmptyStore
  /\ preferenceProviders = Scopes
  /\ cachedPreference = [n \in {} |-> <<>>]
  /\ events = <<>>
  /\ writes = <<>>
  /\ ret = NoCall
  /\ Elsewhere
  /\ Initialized

NextEmit ==
  \/ Resolve(nP, Undef, EmitDomain[1], NoLang)
  \/ \E s \in {Default, User, Workspace} :
       \E slots \in SeqsUpTo(EmitSlots(s), MaxEmitBatch) :
         ProviderChanged(s, [i \in 1..Len(slots) |-> Toggled(s, slots[i])], EmitDomain)

SpecEmit == InitEmit /\ [][NextEmit]_vars

\* The life cycle: the engine as its constructor leaves it (init has pushed the rejection
\* of readiness and initializeProviders waits for the Default provider, lines 140-170).
\* The providers settle their readiness in any order, initializeProviders resumes, the
\* owner disposes the engine any number of times; meanwhile callers resolve "p", inspect
\* it and write it, and the registered providers of Default and User change it.
LifeUpdates(scope) ==
  IF scope \in {Default, User}
  THEN {Update(nP, NoLang, v) : v \in {Undef, Prim(1)}}
       \cup (IF scope = User THEN {Update(nP, "json", Prim(1))} ELSE {})
  ELSE {}

InitLife ==
  /\ prov = EmptyStore
  /\ preferenceProviders = {Default}
  /\ cachedPreference = [n \in {} |-> <<>>]
  /\ events = <<>>
  /\ writes = <<>>
  /\ ret = NoCall
  /\ Elsewhere
  /\ ready = Pending
  /\ providerReady = [s \in Scopes |-> "pending"]
  /\ awaiting = Default
  /\ toDispose = Constructed \cup {Subscription(Default)}

NextLife ==
  \/ \E s \in Scopes : ProviderReady(s)
  \/ \E s \in Scopes : ProviderRejected(s)
  \/ Awaited
  \/ Dispose
  \/ Resolve(nP, Undef, NoUri, NoLang)
  \/ \E u \in UriArgs : Inspect(nP, u)
  \/ \E s \in Scopes : \E updates \in SeqsUpTo(LifeUpdates(s), MaxBatch) :
       ProviderChanged(s, updates, <<>>)
  \/ Set(nP, Prim(1), Workspace, NoUri)
  \/ \E i \in 1..MaxWrites : \E written \in BOOLEAN : SetSettled(i, written)

SpecLife == InitLife /\ [][NextLife]_vars

\* The same, with the one thing the event loop guarantees: a continuation whose promise
\* has settled is run. Nothing makes a provider settle, or the owner dispose.
SpecLifeFair == SpecLife /\ WF_vars(Awaited)

\* The engine before it is ready: as its constructor leaves it, while the files of the
\* User and Workspace providers, not created yet, may already hold a value of "p".
\* Callers write "p" to the User and Workspace scopes, and the providers registered so
\* far set and delete "p", while initializeProviders goes through the scopes.
EarlyStores == StoresOver({<<s, <<nP, NoLang>>>> : s \in {User, Workspace}}, {Undef, Prim(1)})

InitEarly ==
  /\ prov \in EarlyStores
  /\ preferenceProviders = {Default}
  /\ cachedPreference = [n \in {} |-> <<>>]
  /\ events = <<>>
  /\ writes = <<>>
  /\ ret = NoCall
  /\ Elsewhere
  /\ ready = Pending
  /\ providerReady = [s \in Scopes |-> "pending"]
  /\ awaiting = Default
  /\ toDispose = Constructed \cup {Subscription(Default)}

NextEarly ==
  \/ \E s \in Scopes : ProviderReady(s)
  \/ \E s \in Scopes : ProviderRejected(s)
  \/ Awaited
  \/ \E s \in {User, Workspace} : Set(nP, Prim(1), s, NoUri)
  \/ \E i \in 1..MaxWrites : \E written \in BOOLEAN : SetSettled(i, written)
  \/ \E s \in {Default, User} : \E updates \in SeqsUpTo(LifeUpdates(s), MaxBatch) :
       ProviderChanged(s, updates, <<>>)

SpecEarly == InitEarly /\ [][NextEarly]_vars

\* The cache under several keys: the engine once initialized, no provider holding a
\* value. Callers resolve "p" with and without a language and for a resource, and "q";
\* the Default and User providers set and delete "p" (plain and for json) and "q".
CacheSlots(scope) ==
  {nP} \X LangArgs \cup (IF scope = Default THEN {<<nQ, NoLang>>} ELSE {})

CacheKeys == {<<nP, NoUri, l>> : l \in LangArgs} \cup {<<n, u, NoLang>> : n \in {nP, nQ}, u \in Uris}

InitCache ==
  /\ prov = EmptyStore
  /\ preferenceProviders = Scopes
  /\ cachedPreference = [n \in {} |-> <<>>]
  /\ events = <<>>
  /\ writes = <<>>
  /\ ret = NoCall
  /\ Elsewhere
  /\ Initialized

NextCache ==
  \/ \E k \in CacheKeys : Resolve(k[1], Undef, k[2], k[3])
  \/ \E s \in {Default, User} : \E slots \in SeqsUpTo(CacheSlots(s), MaxBatch) :
       ProviderChanged(s, [i \in 1..Len(slots) |-> Toggled(s, slots[i])], <<>>)

SpecCache == InitCache /\ [][NextCache]_vars

\* Dotted names read in a context: the User provider holds "a" and "a.b", plain and for
\* json, or not; callers resolve both names with and without a language and a resource.
ContextStores ==
  {[s \in Scopes |->
      IF s = User
      THEN [EmptyStore[s] EXCEPT ![<<nA, NoLang>>] = va, ![<<nA, "json">>] = vaj,
                                 ![<<nAB, NoLang>>] = vab, ![<<nAB, "json">>] = vabj]
      ELSE EmptyStore[s]]
   : va \in {Undef, R1}, vaj \in {Undef, R2}, vab \in {Undef, Prim(1)},
     vabj \in {Undef, Prim(0)}}

InitContext ==
  /\ prov \in ContextStores
  /\ preferenceProviders = Scopes
  /\ cachedPreference = [n \in {} |-> <<>>]
  /\ events = <<>>
  /\ writes = <<>>
  /\ ret = NoCall
  /\ Elsewhere
  /\ Initialized

NextContext ==
  \E n \in {nA, nAB} : \E u \in UriArgs : \E l \in LangArgs : Resolve(n, Undef, u, l)

SpecContext == InitContext /\ [][NextContext]_vars

\* The preference service is up and nothing happens to it.
PreferencesAtRest ==
  /\ prov = EmptyStore
  /\ preferenceProviders = Scopes
  /\ cachedPreference = [n \in {} |-> <<>>]
  /\ writes = <<>>
  /\ Initialized

\* A Menu over a registry of grouped items: items come and go, one context key changes.
InitMenuNodes ==
  /\ MenuCreated(<<>>)
  /\ context = {}
  /\ events = <<>>
  /\ ret = NoCall
  /\ WorkspaceProviderAtRest
  /\ PreferencesAtRest

NextMenuNodes ==
  \/ \E item \in GroupedItems : MenuItemRegistered(item)
  \/ \E i \in 1..MaxItems : MenuItemUnregistered(i)
  \/ BuildTimerFired
  \/ ContextChanged({"k1"})
  \/ ContextTimerFired

SpecMenuNodes == InitMenuNodes /\ [][NextMenuNodes]_vars

\* A Menu over a registry of items with when expressions, until it is disposed and after.
InitMenu ==
  /\ \E item \in KeyedItems : MenuCreated(<<item>>)
  /\ context = {}
  /\ events = <<>>
  /\ ret = NoCall
  /\ WorkspaceProviderAtRest
  /\ PreferencesAtRest

NextMenu ==
  \/ \E item \in KeyedItems : MenuItemRegistered(item)
  \/ \E i \in 1..MaxItems : MenuItemUnregistered(i)
  \/ OtherMenuChanged
  \/ BuildTimerFired
  \/ \E keys \in SUBSET {"k1", "k2"} : ContextChanged(keys)
  \/ ContextTimerFired
  \/ MenuDispose

SpecMenu == InitMenu /\ [][NextMenu]_vars

\* The timers of the two debounces run out: setTimeout(..., 50) is not cleared but by a
\* new event that sets it again.
SpecMenuFair ==
  /\ SpecMenu
  /\ WF_vars(BuildTimerFired)
  /\ WF_vars(ContextTimerFired)

\* A WorkspacePreferenceProvider while the workspace changes.
InitWorkspace ==
  /\ \E w \in Workspaces : WorkspaceProviderCreated(w)
  /\ events = <<>>
  /\ ret = NoCall
  /\ MenuAtRest
  /\ PreferencesAtRest

NextWorkspace ==
  \/ \E w \in Workspaces : WorkspaceLocationChanged(w)
  \/ \E d \in Providers : DelegateChanged(d)
  \/ \E v \in {Undef, Prim(1)} : doGet(v)
  \/ \E v \in {Undef, Prim(1)} : doResolveOfWorkspace(v)
  \/ \E done \in BOOLEAN : doSetPreference(done)

SpecWorkspace == InitWorkspace /\ [][NextWorkspace]_vars

----------------------------------------------------------------------------
(* What the providers' current state resolves to, stated without the walk *)

\* The valid scopes whose provider defines a value for the name (in the language).
Defining(preferenceName, language) ==
  {s \in Scopes : /\ isValidInScope(preferenceName, s)
                  /\ getProvider(s)
                  /\ ~isUndefined(prov[s][<<preferenceName, language>>])}

Highest(S) == CHOOSE s \in S : \A t \in S : t <= s

\* The defining scopes from which the merged value is built: the highest one, and below it
\* those that hold a record, up to the first that does not.
Contributing(preferenceName, language) ==
  LET def == Defining(preferenceName, language) IN
  {s \in def : \A t \in def : t > s => prov[t][<<preferenceName, language>>].kind = "rec"}

\* The key-wise union: every key takes its value from the highest scope that defines it.
KeyWiseUnion(preferenceName, language, among) ==
  Rec(UNION {{e \in prov[s][<<preferenceName, language>>].m :
                \A t \in among : t > s => e[1][1] \notin TopKeys(prov[t][<<preferenceName, language>>])}
             : s \in among})

\* The language-agnostic value of the name: undefined when no valid scope defines one, the
\* highest defining scope's value when that is no record, else the key-wise union of the
\* records at the top.
PlainValue(preferenceName) ==
  LET def == Defining(preferenceName, NoLang) IN
  IF def = {} THEN Undef
  ELSE IF prov[Highest(def)][<<preferenceName, NoLang>>].kind # "rec"
  THEN prov[Highest(def)][<<preferenceName, NoLang>>]
  ELSE KeyWiseUnion(preferenceName, NoLang,
                    {s \in Contributing(preferenceName, NoLang) :
                       prov[s][<<preferenceName, NoLang>>].kind = "rec"})

\* The last step was resolve(name) with no language.
ResolvedPlain == ret.op = "resolve" /\ ret.language = NoLang /\ ret.threw = ""

----------------------------------------------------------------------------
(* C1: cache coherence *)

\* C1 (as claimed): whatever change batches the providers have emitted since resolve(name)
\* filled the cache, a resolve(name) returns the value computed from the providers'
\* present state, never the cached one of before.
C1_NoStaleRead ==
  ResolvedPlain => ret.result.value = PlainValue(ret.name)

----------------------------------------------------------------------------
(* C2: precedence of non-record values *)

\* Two valid scopes define a non-record value for the name.
TwoNonRecords(preferenceName) ==
  \E s1, s2 \in Defining(preferenceName, NoLang) :
    /\ s1 < s2
    /\ prov[s1][<<preferenceName, NoLang>>].kind = "prim"
    /\ prov[s2][<<preferenceName, NoLang>>].kind = "prim"

\* resolve returned the value of the highest valid scope that defines one, with that scope.
ReturnedHighest ==
  /\ ret.result.value = prov[Highest(Defining(ret.name, NoLang))][<<ret.name, NoLang>>]
  /\ ret.result.scope = Highest(Defining(ret.name, NoLang))

----------------------------------------------------------------------------
(* C3: record merge *)

\* C3 (as claimed): for a name some valid scope defines a record for, resolve(name).value
\* is the key-wise union of the records, each key from the highest scope that defines it,
\* a non-record value in a higher scope replacing what was accumulated below it, and
\* result.scope is the highest valid scope that defines a value.
C3_KeyWiseUnion ==
  (/\ ResolvedPlain
   /\ \E s \in Defining(ret.name, NoLang) : prov[s][<<ret.name, NoLang>>].kind = "rec")
  => /\ ret.result.value = PlainValue(ret.name)
     /\ ret.result.scope = Highest(Defining(ret.name, NoLang))

----------------------------------------------------------------------------
(* C9: a Default-scope deletion that a User value shadows *)

\* The i-th raw change of the last batch deletes the Default value of a name that is
\* valid in User scope and that the User provider still defines.
ShadowedDefaultDeletion(i) ==
  /\ ret.batch.default[i].scope = Default
  /\ isUndefined(ret.batch.default[i].newValue)
  /\ isValidInScope(ret.batch.default[i].preferenceName, User)
  /\ ~isUndefined(prov[User][<<ret.batch.default[i].preferenceName, NoLang>>])

\* Some event of the last step carries a change of the name with this scope and value.
Emitted(preferenceName, scope, newValue) ==
  \E j \in 1..Len(events) :
    /\ events[j].type \in {"onPreferenceChanged", "onPreferencesChanged"}
    /\ \E k \in 1..Len(events[j].changes) :
         /\ events[j].changes[k].preferenceName = preferenceName
         /\ events[j].changes[k].scope = scope
         /\ events[j].changes[k].newValue = newValue

\* No event of the last step carries a change of the name.
NothingEmitted(preferenceName) ==
  \A j \in 1..Len(events) :
    events[j].type \in {"onPreferenceChanged", "onPreferencesChanged"}
    => \A k \in 1..Len(events[j].changes) :
         events[j].changes[k].preferenceName # preferenceName

\* C9 (as claimed): a Default-scope deletion of a name whose User provider still defines a
\* value is emitted as a change with scope User and newValue the User value.
C9_ReattributedToUser ==
  ret.op = "change"
  => \A i \in 1..Len(ret.batch.default) :
       ShadowedDefaultDeletion(i)
       => Emitted(ret.batch.default[i].preferenceName, User,
                  prov[User][<<ret.batch.default[i].preferenceName, NoLang>>])

\* C9 (amended): a Default-scope deletion of a name valid in User scope whose User
\* provider still defines a value is never reattributed: for a name not valid in Folder
\* scope nothing is emitted for it, for a name valid in Folder scope it is emitted as
\* reported, with scope Default and newValue undefined.
C9_ShadowedDeletion ==
  ret.op = "change"
  => \A i \in 1..Len(ret.batch.default) :
       ShadowedDefaultDeletion(i)
       => IF isValidInScope(ret.batch.default[i].preferenceName, Folder)
          THEN /\ Emitted(ret.batch.default[i].preferenceName, Default, Undef)
               /\ ~Emitted(ret.batch.default[i].preferenceName, User,
                           prov[User][<<ret.batch.default[i].preferenceName, NoLang>>])
          ELSE NothingEmitted(ret.batch.default[i].preferenceName)

\* The Default provider has just deleted "p", of which the User provider holds 1, and no
\* event went out.
C9_Witness ==
  /\ ret.op = "change"
  /\ Len(ret.batch.default) = 1
  /\ ret.batch.default[1].preferenceName = nP
  /\ ret.batch.default[1].oldValue = Prim(0)
  /\ ShadowedDefaultDeletion(1)
  /\ prov[User][<<nP, NoLang>>] = Prim(1)
  /\ events = <<>>

----------------------------------------------------------------------------
(* C4: the default a caller passes *)

\* C4 (as claimed): the default substituted for an undefined value is not kept: whenever
\* no valid scope defines the name, resolve(name, d) returns d, whatever default an earlier
\* resolve was given, and resolve(name) with no default returns undefined.
C4_DefaultNotStored ==
  (ResolvedPlain /\ ret.name = nP /\ Defining(nP, NoLang) = {})
  => ret.result.value = ret.defaultValue

----------------------------------------------------------------------------
(* C5: what a caller does to the value it was handed *)

\* C5 (as claimed): for a name whose providers resolve to a record, whatever callers wrote
\* into the values or results earlier calls handed them, resolve(name) returns the record
\* the providers define, as long as the providers have not changed.
C5_CacheIsolated ==
  (ResolvedPlain /\ ret.name = nP /\ PlainValue(nP).kind = "rec")
  => ret.result.value = PlainValue(nP)

----------------------------------------------------------------------------
(* C7, C8: dotted lookup *)

\* The number of segments of the longest proper prefix of the name that has a defined
\* value, 0 when there is none.
LongestDefinedPrefix(parts) ==
  LET defined == {i \in 1..(Len(parts) - 1) :
                    ~isUndefined(PlainValue(join(SubSeq(parts, 1, i))))}
  IN IF defined = {} THEN 0 ELSE Highest(defined)

\* value[k1][k2]...: undefined as soon as a key is missing.
Dig(value, keys) ==
  IF Len(keys) = 0 THEN value
  ELSE IF value.kind # "rec" THEN Undef
  ELSE IF \E e \in value.m : e[1] = keys THEN Prim((CHOOSE e \in value.m : e[1] = keys)[2])
  ELSE IF \E e \in value.m : StartsWith(e[1], keys)
  THEN Rec({<<SubSeq(e[1], Len(keys) + 1, Len(e[1])), e[2]>> :
              e \in {f \in value.m : StartsWith(f[1], keys)}})
  ELSE Undef

\* What the fallback of a dotted name is to return.
FallbackValue(parts) ==
  IF LongestDefinedPrefix(parts) = 0 THEN Undef
  ELSE Dig(PlainValue(join(SubSeq(parts, 1, LongestDefinedPrefix(parts)))),
           SubSeq(parts, LongestDefinedPrefix(parts) + 1, Len(parts)))

\* The last step resolved, with no default, a dotted name no scope defines.
ResolvedFallback ==
  /\ ret.op = "resolve" /\ ret.language = NoLang /\ isUndefined(ret.defaultValue)
  /\ Len(split(ret.name)) > 1
  /\ isUndefined(PlainValue(ret.name))

\* C7 (as claimed): resolve of a dotted name that no scope defines returns what the walk of
\* the remaining segments finds in the value of the longest proper prefix that has a
\* defined value, 0 and other falsy values included; shorter prefixes are not consulted.
C7_LongestDefinedPrefix ==
  (ResolvedFallback /\ ret.threw = "") => ret.result.value = FallbackValue(split(ret.name))

\* C8 (as claimed): resolve of a dotted name never raises, also when a key is missing in
\* the prefix value while segments remain.
C8_NeverRaises ==
  (ret.op = "resolve" /\ Len(split(ret.name)) > 1) => ret.threw = ""

----------------------------------------------------------------------------
(* C6: the language overlay *)

\* The language values of the scopes from s on, merged one after the other onto `value`.
RECURSIVE MergedOnTop(_, _, _, _)
MergedOnTop(value, preferenceName, language, s) ==
  IF s > Folder THEN value
  ELSE MergedOnTop(IF s \in Defining(preferenceName, language)
                   THEN merge(value, prov[s][<<preferenceName, language>>]) ELSE value,
                   preferenceName, language, s + 1)

----------------------------------------------------------------------------
(* C10: a Folder write needs a resource *)

\* The last step was a set whose target scope is Folder and that gave no resource.
FolderSetWithoutResource ==
  ret.op = "set" /\ ret.scope = Folder /\ ret.resourceUri = NoUri

\* C10: a set whose target scope is Folder and that gives no resourceUri fails with the
\* error 'no resource is provided'; no setPreference call reaches the Folder provider, and
\* the step leaves the cache, the providers, their values and the events as they were.
C10_FolderNeedsResource ==
  [][FolderSetWithoutResource'
     => /\ ret'.threw = ErrNoResource
        /\ writes' = writes
        /\ UNCHANGED <<cachedPreference, preferenceProviders, prov, events>>]_vars

\* A set with scope Folder and no resource has just failed, after another set had reached
\* a provider.
C10_Witness ==
  /\ FolderSetWithoutResource
  /\ ret.threw = ErrNoResource
  /\ Folder \in preferenceProviders
  /\ Len(writes) = 1

----------------------------------------------------------------------------
(* C11: a section is not written in User scope *)

\* The last step was a set whose target scope is User, of a name whose first segment is a
\* reserved section name.
UserSetOfSection ==
  ret.op = "set" /\ ret.scope = User /\ isSectionName(split(ret.name)[1])

\* C11: a set whose target scope is User and whose name's first dotted segment is a
\* reserved section name fails with an error and no setPreference call reaches a provider;
\* a set of any other name or target scope is not failed by this check.
C11_SectionNotGlobal ==
  [][ret'.op = "set"
     => /\ UserSetOfSection' => (ret'.threw = ErrNotGlobal /\ writes' = writes)
        /\ ret'.threw = ErrNotGlobal => UserSetOfSection']_vars

\* set("s.p", 1, User) has just failed while the User provider is registered.
C11_Witness ==
  /\ UserSetOfSection
  /\ ret.name = <<"s", ".", "p">>
  /\ ret.threw = ErrNotGlobal
  /\ User \in preferenceProviders
  /\ writes = <<>>

----------------------------------------------------------------------------
(* C12: set is no silent no-op *)

\* The i-th setPreference call is the write of the set that has just settled.
SettledWrite(i) ==
  /\ i \in 1..Len(writes)
  /\ writes[i].outcome = "pending"
  /\ writes' = [writes EXCEPT ![i].outcome = writes'[i].outcome]
  /\ writes'[i].outcome # "pending"
  /\ writes[i].scope = ret'.scope

\* C12: a set call completes only after the provider of its target scope has returned
\* true from the write; in every other case it fails with an error, which names the
\* target scope when the write returned false and when the target scope has no provider.
C12_NoSilentNoOp ==
  [][/\ (ret'.op = "set" /\ ret'.threw = "")
          => /\ getProvider(ret'.scope)
             /\ writes' = Append(writes, writes'[Len(writes')])
             /\ writes'[Len(writes')].scope = ret'.scope
             /\ writes'[Len(writes')].outcome = "pending"
     /\ (ret'.op = "set" /\ ret'.threw # "") => writes' = writes
     /\ (ret'.op = "set" /\ ~getProvider(ret'.scope))
          => ret'.threw \in {ErrNotGlobal, ErrNoResource,
                             "Unable to write to " \o getScopeNames[ret'.scope + 1] \o " Settings."}
     /\ ret'.op = "setSettled"
          => \E i \in 1..Len(writes) :
               /\ SettledWrite(i)
               /\ ret'.threw = "" <=> writes'[i].outcome = "written"
               /\ writes'[i].outcome = "failed"
                    => ret'.threw = "Unable to write to " \o getScopeNames[ret'.scope + 1]
                                    \o " Settings."]_vars

\* A set in Workspace scope has just failed because the provider returned false.
C12_Witness ==
  /\ ret.op = "setSettled"
  /\ ret.scope = Workspace
  /\ ret.threw = "Unable to write to Workspace Settings."
  /\ Len(writes) = 1 /\ writes[1].outcome = "failed"

----------------------------------------------------------------------------
(* C13: the scope a write goes to *)

\* The target scope of set(name, value, scope, resourceUri): the scope given, Default
\* included; with no scope given, Workspace when there is no resource (none, or the empty
\* string) and Folder when there is one.
TargetScope(scope, resourceUri) ==
  IF scope \in Scopes THEN scope
  ELSE IF resourceUri \in Uris THEN Folder ELSE Workspace

\* C13: a set that reaches a provider makes exactly one setPreference call, to the
\* provider of its target scope, and to no other.
C13_Routing ==
  [][ret'.op = "set"
     => \A s \in Scopes \cup {NoScope} :
          Set(ret'.name, ret'.value, s, ret'.resourceUri)
          => /\ ret'.scope = TargetScope(s, ret'.resourceUri)
             /\ writes' # writes
                  => /\ Len(writes') = Len(writes) + 1
                     /\ SubSeq(writes', 1, Len(writes)) = writes
                     /\ writes'[Len(writes')].scope = TargetScope(s, ret'.resourceUri)
                     /\ writes'[Len(writes')].preferenceName = ret'.name
                     /\ writes'[Len(writes')].resourceUri = ret'.resourceUri]_vars

\* set("p", 1, Default) has just gone to the Default provider, though a resource was given.
C13_Witness ==
  /\ ret.op = "set" /\ ret.threw = ""
  /\ ret.scope = Default /\ ret.resourceUri \in Uris
  /\ Len(writes) = 1 /\ writes[1].scope = Default /\ writes[1].outcome = "pending"

----------------------------------------------------------------------------
(* C14: ready only when every provider is *)

\* C14: the engine's readiness is fulfilled only when every scope has its provider
\* registered and that provider is ready.
C14_ReadyAfterAll ==
  ready.state = "fulfilled"
  => \A s \in Scopes : getProvider(s) /\ providerReady[s] = "ready"

\* Readiness has just been fulfilled by the step that resumed from the Folder provider.
C14_Witness ==
  /\ ready.state = "fulfilled"
  /\ ret.op = "awaited" /\ ret.scope = Folder

----------------------------------------------------------------------------
(* C15: fail-fast *)

\* C15: once any provider has rejected its readiness, the engine's readiness is rejected,
\* whatever the other providers do (be it that they never settle).
C15_FailFast ==
  \A s \in Scopes : (providerReady[s] = "rejected") ~> (ready.state = "rejected")

\* The part of C15 that is about what never happens: once a provider has rejected its
\* readiness, the engine's readiness is not fulfilled.
C15_NeverFulfilled ==
  (\E s \in Scopes : providerReady[s] = "rejected") => ready.state # "fulfilled"

----------------------------------------------------------------------------
(* C16: disposal before readiness *)

\* C16: a dispose while readiness is pending rejects it with the disposal error, and
\* readiness, once fulfilled or rejected, never changes again.
C16_DisposeRejectsPending ==
  [][/\ (ret'.op = "dispose" /\ ready.state = "pending")
          => ready' = [state |-> "rejected", error |-> "preference service is disposed"]
     /\ ready.state # "pending" => ready' = ready]_vars

\* The engine has just been disposed while initializeProviders was waiting for a provider
\* that then became ready: readiness stays rejected with the disposal error.
C16_Witness ==
  /\ ready = [state |-> "rejected", error |-> ErrDisposed]
  /\ awaiting = Done
  /\ \A s \in Scopes : providerReady[s] = "ready"

----------------------------------------------------------------------------
(* C18: dispose twice, dispose with work in flight *)

\* C18: dispose raises nothing; it leaves the writes on their way and the initialisation
\* where they are, its one effect on them being that readiness, if pending, is rejected;
\* and a second dispose, coming right after, changes nothing.
C18_DisposeIdempotent ==
  [][ret'.op = "dispose"
     => /\ ret'.threw = ""
        /\ UNCHANGED <<writes, awaiting, preferenceProviders, providerReady, prov>>
        /\ ready' = IF ready.state = "pending"
                    THEN [state |-> "rejected", error |-> ErrDisposed] ELSE ready
        /\ DisposeAll(toDispose', ready') = [toDispose |-> toDispose', ready |-> ready']]_vars

\* The engine has just been disposed with a write on its way and initializeProviders
\* waiting for a provider.
C18_Witness ==
  /\ ret.op = "dispose"
  /\ Len(writes) = 1 /\ writes[1].outcome = "pending"
  /\ awaiting \in Scopes
  /\ ready = [state |-> "rejected", error |-> ErrDisposed]

----------------------------------------------------------------------------
(* C17: nothing after disposal *)

\* dispose has been called: the emitters of line 114 are in the collection until then, and
\* never after.
IsDisposed == Emitters \cap toDispose = {}

\* C17: dispose leaves no cached entry, and a batch that a provider emits once the
\* engine is disposed is not reconciled, fires no event and touches no cache entry,
\* wherever initializeProviders was when dispose came.
C17_NothingAfterDispose ==
  [][/\ ret'.op = "dispose" => cachedPreference' = [n \in {} |-> <<>>]
     /\ (IsDisposed /\ ret'.op \in {"change", "unheard"})
          => /\ ret'.op = "unheard"
             /\ events' = <<>>
             /\ cachedPreference' = cachedPreference]_vars

----------------------------------------------------------------------------
(* C19: inspect *)

\* What the provider of `scope` holds for the name, when the scope has a provider.
RawValue(preferenceName, scope) ==
  IF scope \in preferenceProviders THEN prov[scope][<<preferenceName, NoLang>>] ELSE Undef

\* C19: inspect returns, for each scope, what the provider of that scope holds for the
\* name (undefined when the scope has no provider), unmerged and whatever the cache
\* holds; it leaves the cache as it is and fires no event.
C19_InspectIsRaw ==
  [][ret'.op = "inspect"
     => /\ ret'.inspected.preferenceName = ret'.name
        /\ ret'.inspected.defaultValue = RawValue(ret'.name, Default)
        /\ ret'.inspected.globalValue = RawValue(ret'.name, User)
        /\ ret'.inspected.workspaceValue = RawValue(ret'.name, Workspace)
        /\ ret'.inspected.workspaceFolderValue = RawValue(ret'.name, Folder)
        /\ cachedPreference' = cachedPreference
        /\ events' = <<>>]_vars

\* "p" has just been inspected while the cache held an entry for it, the Default provider
\* holding a value, the User provider none and the Folder scope having no provider yet.
C19_Witness ==
  /\ ret.op = "inspect"
  /\ ret.name \in DOMAIN cachedPreference
  /\ ret.inspected.defaultValue = Prim(1)
  /\ ret.inspected.globalValue = Undef
  /\ User \in preferenceProviders
  /\ Folder \notin preferenceProviders

----------------------------------------------------------------------------
(* C20: the cache is invalidated before the events fire *)

\* The names the events of the last step carry, and the names of the batch of that step.
CarriedNames ==
  UNION {{events[i].changes[j].preferenceName : j \in 1..Len(events[i].changes)}
         \cup {events[i].affectedKeys[j] : j \in 1..Len(events[i].affectedKeys)}
         : i \in 1..Len(events)}

BatchNames ==
  {ret.batch.default[j].preferenceName : j \in 1..Len(ret.batch.default)}
  \cup UNION {{ret.batch.languageSpecific[i].changes[j].preferenceName
                 : j \in 1..Len(ret.batch.languageSpecific[i].changes)}
              : i \in 1..Len(ret.batch.languageSpecific)}

----------------------------------------------------------------------------
(* The raw changes of the last batch and the changes its events carry *)

\* The raw changes of the last batch: the language-agnostic ones, and those of a language.
RawChanges(language) ==
  IF language = NoLang THEN ret.batch.default
  ELSE IF \E i \in 1..Len(ret.batch.languageSpecific) :
            ret.batch.languageSpecific[i].language = language
  THEN ret.batch.languageSpecific[
         CHOOSE i \in 1..Len(ret.batch.languageSpecific) :
           ret.batch.languageSpecific[i].language = language].changes
  ELSE <<>>

\* The events of the last step of one type (and, for the language events, one language).
EventsOf(type, language) ==
  SelectSeq(events, LAMBDA e : e.type = type /\ e.language = language)

\* The changes the events of the last step carry for the group of `language`: those of
\* onPreferencesChanged and onPreferenceChanged, or of onLanguagePreferencesChanged.
CarriedChanges(language) ==
  UNION {{events[j].changes[k] : k \in 1..Len(events[j].changes)}
         : j \in {i \in 1..Len(events) :
                    IF language = NoLang
                    THEN events[i].type \in {"onPreferencesChanged", "onPreferenceChanged"}
                    ELSE /\ events[i].type = "onLanguagePreferencesChanged"
                         /\ events[i].language = language}}

\* The names the onDidChangeConfiguration events of the last step carry.
AffectedNames ==
  UNION {{events[j].affectedKeys[k] : k \in 1..Len(events[j].affectedKeys)}
         : j \in 1..Len(events)}

----------------------------------------------------------------------------
(* C21: a shadowed change is not emitted *)

\* A valid scope above the scope of the change has a provider that holds a value for the
\* name (for the language of the change's group), the name not being valid in Folder.
Shadowed(change, language) ==
  /\ ~isValidInScope(change.preferenceName, Folder)
  /\ \E s \in Scopes :
       /\ s > change.scope
       /\ isValidInScope(change.preferenceName, s)
       /\ s \in preferenceProviders
       /\ ~isUndefined(prov[s][<<change.preferenceName, language>>])

\* C21: a raw change of a name not valid in Folder scope that a higher valid scope
\* shadows produces no event: no event of its group carries a change of the name, and,
\* for a language-agnostic change, no onDidChangeConfiguration carries the name.
C21_ShadowedNotEmitted ==
  ret.op = "change"
  => \A l \in LangArgs : \A i \in 1..Len(RawChanges(l)) :
       Shadowed(RawChanges(l)[i], l)
       => /\ \A ch \in CarriedChanges(l) :
               ch.preferenceName # RawChanges(l)[i].preferenceName
          /\ l = NoLang => RawChanges(l)[i].preferenceName \notin AffectedNames

\* The Default provider has just set "p" and "q" in one batch while the User provider
\* holds a value for "p": the events carry "q" alone.
C21_Witness ==
  /\ ret.op = "change" /\ ret.scope = Default
  /\ Len(ret.batch.default) = 2
  /\ \E i \in 1..2 : /\ ret.batch.default[i].preferenceName = nP
                     /\ ret.batch.default[i].newValue = Prim(1)
                     /\ Shadowed(ret.batch.default[i], NoLang)
  /\ AffectedNames = {nQ}
  /\ {ch.preferenceName : ch \in CarriedChanges(NoLang)} = {nQ}

----------------------------------------------------------------------------
(* C22: a deletion falls through to the scope below *)

\* The valid scopes below the scope of the change whose provider holds a value for the
\* name (for the language of the change's group).
DefiningBelow(change, language) ==
  {s \in Defining(change.preferenceName, language) : s < change.scope}

\* A deletion of a name not valid in Folder scope that no higher scope shadows and that
\* has a value to fall through to.
FallsThrough(change, language) ==
  /\ ~isValidInScope(change.preferenceName, Folder)
  /\ isUndefined(change.newValue)
  /\ ~Shadowed(change, language)
  /\ DefiningBelow(change, language) # {}

\* The change with the scope and the value of the highest defining scope below it.
FallenThrough(change, language) ==
  [change EXCEPT
     !.scope = Highest(DefiningBelow(change, language)),
     !.newValue = prov[Highest(DefiningBelow(change, language))]
                      [<<change.preferenceName, language>>]]

\* C22: an unshadowed deletion of a name not valid in Folder scope, when a valid scope
\* below holds a value, is emitted with the scope and the value of the highest such
\* scope, and with the oldValue, preferenceName and domain of the raw change; the
\* events of its group carry no other change of the name.
C22_DeletionFallsThrough ==
  ret.op = "change"
  => \A l \in LangArgs : \A i \in 1..Len(RawChanges(l)) :
       FallsThrough(RawChanges(l)[i], l)
       => /\ FallenThrough(RawChanges(l)[i], l) \in CarriedChanges(l)
          /\ \A ch \in CarriedChanges(l) :
               ch.preferenceName = RawChanges(l)[i].preferenceName
               => ch = FallenThrough(RawChanges(l)[i], l)

\* The Workspace provider has just deleted "p" while the User and the Default provider
\* hold a value for it: the change is emitted for the User scope.
C22_Witness ==
  /\ ret.op = "change" /\ ret.scope = Workspace
  /\ Len(ret.batch.default) = 1
  /\ FallsThrough(ret.batch.default[1], NoLang)
  /\ DefiningBelow(ret.batch.default[1], NoLang) = {Default, User}
  /\ \E ch \in CarriedChanges(NoLang) : ch.scope = User /\ ch.oldValue = Prim(1)

----------------------------------------------------------------------------
(* C23: names valid in Folder scope *)

\* C23: every raw change of a name valid in Folder scope is emitted as reported, with
\* its scope, oldValue, newValue and domain, in the events of its group, which carry no
\* other change of the name: deletions and changes that a higher scope shadows too.
C23_FolderValidAsReported ==
  ret.op = "change"
  => \A l \in LangArgs : \A i \in 1..Len(RawChanges(l)) :
       isValidInScope(RawChanges(l)[i].preferenceName, Folder)
       => /\ RawChanges(l)[i] \in CarriedChanges(l)
          /\ \A ch \in CarriedChanges(l) :
               ch.preferenceName = RawChanges(l)[i].preferenceName => ch = RawChanges(l)[i]

\* The Default provider has just deleted "q" while the User provider holds a value for
\* it: the deletion is emitted with scope Default and no new value.
C23_Witness ==
  /\ ret.op = "change" /\ ret.scope = Default
  /\ Len(ret.batch.default) = 1
  /\ ret.batch.default[1].preferenceName = nQ
  /\ isUndefined(ret.batch.default[1].newValue)
  /\ ~isUndefined(prov[User][<<nQ, NoLang>>])
  /\ ret.batch.default[1] \in CarriedChanges(NoLang)

----------------------------------------------------------------------------
(* C24: a language-specific deletion with nothing to fall back to *)

\* A deletion of the group of a language, of a name not valid in Folder scope, that finds
\* no value for that language in any valid scope down to Default.
ClearedLanguage(change, language) ==
  /\ language # NoLang
  /\ ~isValidInScope(change.preferenceName, Folder)
  /\ isUndefined(change.newValue)
  /\ Defining(change.preferenceName, language) = {}

\* C24: a language-specific deletion that reaches Default scope and finds no value is
\* delivered as a language-agnostic change (in onPreferencesChanged and
\* onPreferenceChanged), with scope Default and newValue the plain resolved value.
C24_ReattributedAsPlain ==
  ret.op = "change"
  => \A l \in Languages : \A i \in 1..Len(RawChanges(l)) :
       ClearedLanguage(RawChanges(l)[i], l)
       => \E ch \in CarriedChanges(NoLang) :
            /\ ch.preferenceName = RawChanges(l)[i].preferenceName
            /\ ch.scope = Default
            /\ ch.newValue = PlainValue(ch.preferenceName)

\* Where such a deletion is delivered: in the onLanguagePreferencesChanged event of its
\* language, with scope Default.
C24_DeliveredForLanguage ==
  ret.op = "change"
  => \A l \in Languages : \A i \in 1..Len(RawChanges(l)) :
       ClearedLanguage(RawChanges(l)[i], l)
       => \E ch \in CarriedChanges(l) :
            /\ ch.preferenceName = RawChanges(l)[i].preferenceName
            /\ ch.scope = Default

----------------------------------------------------------------------------
(* C25: the aggregate event and the events per change *)

\* The positions in `events` of the events of one type.
PositionsOf(type) == {j \in 1..Len(events) : events[j].type = type}

\* The names of the language-agnostic changes of the last batch that the walk accepts.
AcceptedNames ==
  {ch.preferenceName :
     ch \in {tryAcceptChanges(prov, cachedPreference, ret.batch.default, NoLang, 1, <<>>)
               .accepted[i]
             : i \in 1..Len(tryAcceptChanges(prov, cachedPreference, ret.batch.default,
                                             NoLang, 1, <<>>).accepted)}}

\* C25: a pass that accepts k >= 1 language-agnostic changes fires onPreferencesChanged
\* once, with the k changes, no two of one name, and after it onPreferenceChanged k
\* times, once per change; a pass that accepts none fires neither.
C25_AggregateThenEach ==
  ret.op = "change"
  => /\ Cardinality(PositionsOf("onPreferencesChanged")) = IF AcceptedNames = {} THEN 0 ELSE 1
     /\ Cardinality(PositionsOf("onPreferenceChanged")) = Cardinality(AcceptedNames)
     /\ \A a \in PositionsOf("onPreferencesChanged") :
          /\ Len(events[a].changes) = Cardinality(AcceptedNames)
          /\ {events[a].changes[k].preferenceName : k \in 1..Len(events[a].changes)}
             = AcceptedNames
          /\ \A j \in PositionsOf("onPreferenceChanged") : a < j
          /\ \A k \in 1..Len(events[a].changes) :
               \E j \in PositionsOf("onPreferenceChanged") :
                 events[j].changes = <<events[a].changes[k]>>

\* A batch of two language-agnostic changes has just been accepted whole.
C25_Witness ==
  /\ ret.op = "change"
  /\ AcceptedNames = {nP, nQ}
  /\ Cardinality(PositionsOf("onPreferenceChanged")) = 2

----------------------------------------------------------------------------
(* C26: the events per language *)

\* The names of the changes of the group of `language` that the walk accepts.
AcceptedNamesOf(language) ==
  {ch.preferenceName :
     ch \in {tryAcceptChanges(prov, cachedPreference, RawChanges(language), language, 1, <<>>)
               .accepted[i]
             : i \in 1..Len(tryAcceptChanges(prov, cachedPreference, RawChanges(language),
                                             language, 1, <<>>).accepted)}}

\* The names of the raw changes of a group of the last batch.
RawNames(language) ==
  {RawChanges(language)[i].preferenceName : i \in 1..Len(RawChanges(language))}

C26_NoneAccepted ==
  /\ ret.op = "change"
  /\ Len(RawChanges("json")) > 0
  /\ AcceptedNamesOf("json") = {}
  /\ PositionsOf("onLanguagePreferencesChanged") = {}

----------------------------------------------------------------------------
(* C27: the notification classified by scope *)

\* The ConfigurationTarget that stands for a scope.
SourceOf(scope) ==
  CASE scope = Default -> ConfigurationTarget_DEFAULT
    [] scope = User -> ConfigurationTarget_USER
    [] scope = Workspace -> ConfigurationTarget_WORKSPACE
    [] scope = Folder -> ConfigurationTarget_WORKSPACE_FOLDER

\* The scope a ConfigurationTarget stands for.
ScopeOf(source) == CHOOSE s \in Scopes : SourceOf(s) = source

\* The names the j-th event carries in affectedKeys.
KeysOf(j) == {events[j].affectedKeys[k] : k \in 1..Len(events[j].affectedKeys)}

\* The accepted language-agnostic changes, as onPreferencesChanged carries them.
AggregatedChanges ==
  UNION {{events[a].changes[k] : k \in 1..Len(events[a].changes)}
         : a \in PositionsOf("onPreferencesChanged")}

\* C27: the name of every accepted language-agnostic change is in the affectedKeys of
\* exactly one onDidChangeConfiguration event, the one whose source stands for the scope
\* the change was emitted with; such an event fires for a scope only when a change has
\* that scope, at most once per scope, in the order Default, User, Workspace, Folder,
\* after onPreferencesChanged and before every onPreferenceChanged.
C27_ScopeClassified ==
  ret.op = "change"
  => /\ \A ch \in AggregatedChanges :
          /\ Cardinality({j \in PositionsOf("onDidChangeConfiguration") :
                            ch.preferenceName \in KeysOf(j)}) = 1
          /\ \A j \in PositionsOf("onDidChangeConfiguration") :
               ch.preferenceName \in KeysOf(j) => events[j].source = SourceOf(ch.scope)
     /\ \A j \in PositionsOf("onDidChangeConfiguration") :
          /\ events[j].source \in {SourceOf(s) : s \in Scopes}
          /\ KeysOf(j) = {ch.preferenceName :
                            ch \in {c \in AggregatedChanges :
                                      SourceOf(c.scope) = events[j].source}}
          /\ KeysOf(j) # {}
          /\ Len(events[j].affectedKeys) = Cardinality(KeysOf(j))
          /\ \A a \in PositionsOf("onPreferencesChanged") : a < j
          /\ \A e \in PositionsOf("onPreferenceChanged") : j < e
          /\ \A i \in PositionsOf("onDidChangeConfiguration") :
               i < j => ScopeOf(events[i].source) < ScopeOf(events[j].source)

\* The User provider has just deleted "p", which falls through to the Default value, and
\* set "q" in one batch: an event for DEFAULT naming "p", then one for USER naming "q".
C27_Witness ==
  /\ ret.op = "change" /\ ret.scope = User
  /\ Cardinality(PositionsOf("onDidChangeConfiguration")) = 2
  /\ \E i, j \in PositionsOf("onDidChangeConfiguration") :
       /\ i < j
       /\ events[i].source = ConfigurationTarget_DEFAULT /\ KeysOf(i) = {nP}
       /\ events[j].source = ConfigurationTarget_USER /\ KeysOf(j) = {nQ}

----------------------------------------------------------------------------
(* C28: providers obtained and subscribed to before any readiness is awaited *)

\* C28: while initialization waits for a provider's readiness, the providers of all four
\* scopes are already registered and subscribed to, so that a provider that is slow to
\* become ready delays neither the creation of nor the subscription to another.
C28_AllSubscribedBeforeAwait ==
  (awaiting \in Scopes /\ ~IsDisposed)
  => \A s \in Scopes : s \in preferenceProviders /\ Subscription(s) \in toDispose

\* What holds instead: while the loop waits for the provider of a scope, the providers
\* registered and subscribed to are those of the scopes up to that one, and no other.
C28_SubscribedInTurn ==
  (awaiting \in Scopes /\ ~IsDisposed)
  => \A s \in Scopes : /\ s \in preferenceProviders <=> s <= awaiting
                       /\ Subscription(s) \in toDispose <=> s <= awaiting

----------------------------------------------------------------------------
(* C29: the scope a resolve result reports *)

\* The value the merge walk has accumulated for the name once it has gone through the
\* scopes up to `scope`, lowest first.
RECURSIVE Accumulated(_, _)
Accumulated(preferenceName, scope) ==
  IF scope < Default THEN Undef
  ELSE IF scope \in Defining(preferenceName, NoLang)
  THEN merge(Accumulated(preferenceName, scope - 1), prov[scope][<<preferenceName, NoLang>>])
  ELSE Accumulated(preferenceName, scope - 1)

\* The scopes whose contribution changed the accumulated value.
Changing(preferenceName) ==
  {s \in Defining(preferenceName, NoLang) :
     Accumulated(preferenceName, s) # Accumulated(preferenceName, s - 1)}

\* The entry that a resolve(name) which missed the cache has just computed and cached.
Computed == cachedPreference[ret.name][cacheHash(NoLang, NoScope, ret.resourceUri)]

\* C29: the scope and configUri of a result just computed are those of the last scope of
\* the merge walk whose contribution changed the accumulated value (a higher scope whose
\* value leaves it unchanged is not reported), and the scope is Default when no scope
\* contributes.
C29_LastChangingScope ==
  (ResolvedPlain /\ ret.miss)
  => IF Changing(ret.name) = {}
     THEN Computed.scope = Default
     ELSE /\ Computed.scope = Highest(Changing(ret.name))
          /\ Computed.configUri = Highest(Changing(ret.name))

\* What holds instead: the scope and configUri reported are those of the highest valid
\* scope whose provider defines a value, whether or not it changed the merged value.
C29_LastDefiningScope ==
  (ResolvedPlain /\ ret.miss)
  => IF Defining(ret.name, NoLang) = {}
     THEN Computed.scope = Default /\ Computed.configUri = NoScope
     ELSE /\ Computed.scope = Highest(Defining(ret.name, NoLang))
          /\ Computed.configUri = Highest(Defining(ret.name, NoLang))

----------------------------------------------------------------------------
(* C30: the value an event carries and the value a listener reads *)

\* What get(name, undefined, firstDomainUri) returns to a listener of the events of the
\* last reconciliation pass.
ReadByListener(change) ==
  get(prov, cachedPreference, change.preferenceName, Undef, Domain0(change),
      NoLang).result.value

\* C30: the newValue of every accepted language-agnostic change of a non-record-valued
\* name is the value that get(name, undefined, firstDomainUri) returns to the listener of
\* its event; a reattributed deletion does not carry the value cached before the batch.
C30_EventAgreesWithRead ==
  ret.op = "change"
  => \A ch \in AggregatedChanges :
       (ch.newValue.kind # "rec" /\ ReadByListener(ch).kind # "rec")
       => ch.newValue = ReadByListener(ch)

\* The part that holds: a change accepted at the scope that reported it, or handed down
\* to a lower scope that defines a value, carries what the scope it names holds.
C30_CarriesScopeValue ==
  ret.op = "change"
  => \A ch \in AggregatedChanges :
       (~isValidInScope(ch.preferenceName, Folder)
        /\ ~isUndefined(prov[ch.scope][<<ch.preferenceName, NoLang>>]))
       => ch.newValue = prov[ch.scope][<<ch.preferenceName, NoLang>>]

----------------------------------------------------------------------------
(* C31: the order in which providers are registered *)

\* The registered scopes are a prefix of the ascending order of the scopes, every scope
\* below a registered or subscribed one has become ready, and no scope above one whose
\* provider has rejected its readiness is registered.
RegisteredInOrder ==
  /\ \A k \in preferenceProviders : \A j \in Scopes : j < k => j \in preferenceProviders
  /\ \A k \in Scopes :
       (k \in preferenceProviders \/ Subscription(k) \in toDispose)
       => \A j \in Scopes : j < k => providerReady[j] = "ready"
  /\ \A k \in Scopes :
       providerReady[k] = "rejected"
       => \A j \in Scopes : j > k => j \notin preferenceProviders

\* C31: in every reachable state the scopes getProvider knows are a prefix of the
\* ascending scope order, the provider of a scope is registered and subscribed to only
\* after the providers of all lower scopes have become ready, no step removes a
\* registered provider, and after a readiness rejection at a scope no higher scope is
\* ever registered.
C31_RegistrationMonotone ==
  [][/\ RegisteredInOrder
     /\ RegisteredInOrder'
     /\ preferenceProviders \subseteq preferenceProviders']_vars

\* The loop has stopped at the User provider, which rejected its readiness while the
\* Workspace provider would have been ready: Default and User are registered, no more.
C31_Witness ==
  /\ ret.op = "awaited" /\ ret.scope = User
  /\ providerReady[User] = "rejected" /\ providerReady[Workspace] = "ready"
  /\ awaiting = Done /\ ready.state = "rejected"
  /\ preferenceProviders = {Default, User}

----------------------------------------------------------------------------
(* C32: operations before the engine is ready *)

\* C32: a set whose target scope has no provider registered yet fails at once with the
\* error 'Unable to write to <scope> Settings.', whatever readiness does later, and no
\* write is ever on its way to a scope without a registered provider; a change batch
\* reconciled then is shadowed by registered scopes only: a change of a name not valid in
\* Folder scope that no registered higher scope shadows is emitted, as reported when it
\* sets a value, whatever the files of the scopes not registered yet hold.
C32_SeesRegisteredOnly ==
  /\ (ret.op = "set" /\ ret.scope \notin preferenceProviders
      /\ ret.threw \notin {ErrNotGlobal, ErrNoResource})
       => ret.threw = "Unable to write to " \o getScopeNames[ret.scope + 1] \o " Settings."
  /\ \A i \in 1..Len(writes) : writes[i].scope \in preferenceProviders
  /\ ret.op = "change"
       => \A l \in LangArgs : \A i \in 1..Len(RawChanges(l)) :
            (~isValidInScope(RawChanges(l)[i].preferenceName, Folder)
             /\ ~Shadowed(RawChanges(l)[i], l))
            => /\ \E ch \in CarriedChanges(l) :
                    ch.preferenceName = RawChanges(l)[i].preferenceName
               /\ ~isUndefined(RawChanges(l)[i].newValue)
                    => RawChanges(l)[i] \in CarriedChanges(l)

\* The Default provider has just set "p" while readiness is pending and the User
\* provider, whose file holds a value of "p", is not registered yet: the change is
\* emitted as reported.
C32_Witness ==
  /\ ret.op = "change" /\ ret.scope = Default
  /\ ready.state = "pending"
  /\ preferenceProviders = {Default}
  /\ prov[User][<<nP, NoLang>>] = Prim(1)
  /\ Len(ret.batch.default) = 1
  /\ ret.batch.default[1].newValue = Prim(1)
  /\ ret.batch.default[1] \in CarriedChanges(NoLang)

\* set("p", 1, Workspace) has just failed while readiness is pending and the Workspace
\* provider is not registered yet.
C32_FailedAtOnce ==
  /\ ret.op = "set" /\ ret.scope = Workspace
  /\ ret.threw = ErrUnableToWrite(Workspace)
  /\ ready.state = "pending"
  /\ Workspace \notin preferenceProviders
  /\ writes = <<>>

----------------------------------------------------------------------------
(* C33: what a step leaves of the cache *)

\* The key of the entry of (language, no ceiling, resource): the three joined, an absent
\* one printed as "undefined".
KeyOf(language, resourceUri) ==
  <<IF language = NoLang THEN "undefined" ELSE language, "undefined",
    IF resourceUri = NoUri THEN "undefined" ELSE resourceUri>>

\* The entries of a cache, as triples of name, key and result.
Entries(c) == UNION {{<<n, k, c[n][k]>> : k \in DOMAIN c[n]} : n \in DOMAIN c}

C33_ThreeKeys ==
  /\ ret.op = "resolve" /\ ret.name = nP
  /\ nP \in DOMAIN cachedPreference
  /\ DOMAIN cachedPreference[nP] = {KeyOf(l, NoUri) : l \in LangArgs} \cup {KeyOf(NoLang, u) : u \in Uris}
  /\ cachedPreference[nP][KeyOf("json", NoUri)].languageSpecific
  /\ ~cachedPreference[nP][KeyOf(NoLang, NoUri)].languageSpecific

----------------------------------------------------------------------------
(* C34: the context of the dotted fallback *)

\* The last step resolved, with no default, a name of two segments that no scope defines,
\* neither plain nor for the language of the call: resolve went to the prefix.
FellBackToPrefix ==
  /\ ret.op = "resolve" /\ ret.threw = "" /\ isUndefined(ret.defaultValue)
  /\ Len(split(ret.name)) = 2
  /\ Defining(ret.name, NoLang) = {}
  /\ Defining(ret.name, ret.language) = {}

\* What resolve(prefix, undefined, resourceUri, language) returns for the prefix of the
\* name of the last step, in the context of that step.
PrefixInContext ==
  resolve(prov, cachedPreference, join(SubSeq(split(ret.name), 1, 1)), Undef,
          ret.resourceUri, ret.language).result.value

\* C34: when resolve(name, undefined, resourceUri, language) falls back to a prefix, its
\* result is the key of the remaining segment in what resolve(prefix, undefined,
\* resourceUri, language) returns: the prefix is resolved for the same resource and
\* language.
C34_FallbackKeepsContext ==
  (FellBackToPrefix /\ PrefixInContext.kind = "rec")
  => ret.result.value = Dig(PrefixInContext, SubSeq(split(ret.name), 2, 2))

\* What holds instead: the fallback reads the prefix with no resource and no language,
\* whatever the context of the call.
C34_FallbackWithoutContext ==
  (FellBackToPrefix /\ PlainValue(join(SubSeq(split(ret.name), 1, 1))).kind = "rec")
  => ret.result.value = Dig(PlainValue(join(SubSeq(split(ret.name), 1, 1))),
                            SubSeq(split(ret.name), 2, 2))

----------------------------------------------------------------------------
(* C35: what getMenuNodes returns *)

\* The group g comes before the group h: 'navigation' first, the named groups in
\* lexical order, the items of no group last.
GroupBefore(g, h) ==
  /\ g # h
  /\ g # NoGroup
  /\ \/ h = NoGroup
     \/ g = navigation
     \/ h # navigation /\ localeCompare(g, h) < 0

NodeItems(nodes) == UNION {{nodes[g][2][i] : i \in 1..Len(nodes[g][2])} : g \in 1..Len(nodes)}

Registered == {menuItems[i] : i \in 1..Len(menuItems)}

C35_GroupHidden ==
  /\ ~buildHandle
  /\ Len(menuGroups) = 2
  /\ Len(getMenuNodes) = 1
  /\ Len(menuGroups[1][2]) = 2
  /\ Len(getMenuNodes[1][2]) = 1

----------------------------------------------------------------------------
(* C36: when a Menu rebuilds *)

BuiltItems == NodeItems(menuGroups)

C36_Step ==
  /\ ret'.op = "registryChanged" /\ ~menuDisposed =>
       /\ buildHandle'
       /\ events' = <<>>
       /\ UNCHANGED <<menuGroups, contextKeys>>
  /\ ret'.op = "otherMenuChanged" =>
       /\ events' = <<>>
       /\ UNCHANGED <<buildHandle, menuGroups, contextKeys>>
  /\ ret'.op = "buildTimer" /\ ~menuDisposed =>
       /\ events' = <<[type |-> "onDidChange", menu |-> "this"]>>
       /\ ~buildHandle'
       /\ BuiltItems' = Registered'
       /\ NodeItems(getMenuNodes)' =
            {item \in Registered' : item.when = NoWhen \/ item.when \in context'}
  /\ \/ menuGroups' # menuGroups
     \/ contextKeys' # contextKeys
     \/ \E e \in 1..Len(events') : events'[e].menu = "this"
     => ret'.op = "buildTimer" /\ buildHandle /\ ~menuDisposed

\* C36: a registry event for the MenuId of the Menu starts the debounce and rebuilds
\* nothing by itself; the events of a burst are followed by one rebuild when the timer runs
\* out (as long as the Menu is not disposed); a rebuild fires onDidChange with the menu
\* exactly once and leaves getMenuNodes with the registry's current items; an event for
\* another id changes nothing; and nothing else rebuilds.
C36_RebuildsOnOwnChangesOnly ==
  /\ [][C36_Step]_vars
  /\ (buildHandle /\ ~menuDisposed) ~> (~buildHandle \/ menuDisposed)

\* A rebuild has just taken in the three items of the registry and fired its event.
C36_Witness ==
  /\ ret.op = "buildTimer"
  /\ ~menuDisposed
  /\ events = <<[type |-> "onDidChange", menu |-> "this"]>>
  /\ Cardinality(Registered) = 3
  /\ BuiltItems = Registered

\* A burst: two registry events have come since the last build, one rebuild is pending.
C36_BurstPending ==
  /\ buildHandle
  /\ ~menuDisposed
  /\ Cardinality(Registered \ BuiltItems) = 2

----------------------------------------------------------------------------
(* C37: what a change of context keys tells the listeners of a Menu *)

\* The keys in the when expressions of the items the latest build collected.
KeysOfBuilt == {item.when : item \in BuiltItems} \ {NoWhen}

Affected == contextOutput # NoOutput /\ contextOutput[1]

C37_Step ==
  /\ ret'.op = "contextChanged" /\ ~menuDisposed =>
       /\ events' = <<>>
       /\ contextOutput' # NoOutput
       /\ Affected' <=> (Affected \/ ret'.keys \cap KeysOfBuilt # {})
  /\ ret'.op = "contextTimer" =>
       /\ contextOutput # NoOutput
       /\ contextOutput' = NoOutput
       /\ events' = (IF Affected /\ ~menuDisposed
                     THEN <<[type |-> "onDidChange", menu |-> "undefined"]>>
                     ELSE <<>>)
  /\ (\E e \in 1..Len(events') : events'[e].menu = "undefined") => ret'.op = "contextTimer"
  /\ ret'.op \notin {"contextChanged", "contextTimer"} => UNCHANGED contextOutput
  /\ menuDisposed => events' = <<>> /\ UNCHANGED <<menuGroups, contextKeys>>

\* C37: the context-key events of a debounce window are answered when the window ends,
\* by one onDidChange(undefined) if one of them at least affected a key of a when
\* expression of the items of the latest build, and by nothing otherwise; nothing else
\* fires onDidChange(undefined); and a disposed Menu fires no onDidChange, whatever the
\* registry or the context key service report.
C37_ContextChangesNotifyPrecisely == [][C37_Step]_vars

\* A window has ended with its one event: k1, the only key of the menu, and k2 have
\* changed.
C37_Witness ==
  /\ ret.op = "contextTimer"
  /\ ~menuDisposed
  /\ events = <<[type |-> "onDidChange", menu |-> "undefined"]>>
  /\ KeysOfBuilt = {"k1"}
  /\ context = {"k1", "k2"}

\* A window whose events touched no key of the menu has ended without an event.
C37_Unaffected ==
  /\ ret.op = "contextTimer"
  /\ ~menuDisposed
  /\ events = <<>>
  /\ context # {}

\* The Menu was disposed within a window that would have fired.
C37_DisposedInWindow ==
  /\ ret.op = "contextTimer"
  /\ menuDisposed
  /\ events = <<>>
  /\ context \cap KeysOfBuilt # {}

----------------------------------------------------------------------------
(* C38: the delegate of the WorkspacePreferenceProvider *)

\* The providers whose change events the WorkspacePreferenceProvider listens to.
Heard == {x.of : x \in {y \in toDisposeOnEnsureDelegateUpToDate : y.what = "subscription"}}

C38_Step ==
  /\ Cardinality(Heard') <= 1
  /\ Heard' \subseteq {delegate'} \ {NoDelegate}
  /\ ret'.op = "delegateChanged" =>
       /\ events' # <<>> => ret'.from = delegate
       /\ \A e \in 1..Len(events') : events'[e].from = delegate
       /\ ret'.from = delegate /\ delegate \notin disposedProviders => Len(events') = 1
  /\ ret'.op # "delegateChanged" => events' = <<>>
  /\ delegate' = delegate =>
       UNCHANGED <<toDisposeOnEnsureDelegateUpToDate, disposedProviders, created>>
  /\ delegate' # delegate =>
       /\ ret'.op = "locationChanged"
       /\ delegate # NoDelegate => delegate \in disposedProviders' /\ delegate \notin Heard'
  /\ workspace' = NoWorkspace =>
       /\ ret'.op = "doGet" => ret'.value = Undef
       /\ ret'.op = "doResolve" => ret'.result = ValueOnly(Undef)
       /\ ret'.op = "doSetPreference" => ret'.returned = FALSE

\* C38: the WorkspacePreferenceProvider listens to one provider at most, its delegate, and
\* emits again the batches of that one alone; a delegate that is replaced is disposed with
\* its subscription and its batches are emitted no more; a location change that gives the
\* same delegate disposes nothing and subscribes to nothing; and with no workspace open
\* get returns undefined, resolve an empty result, setPreference false.
C38_ForwardsFromCurrentDelegateOnly == [][C38_Step]_vars

\* The provider of the first multi-root workspace, replaced by that of the second, has
\* fired a batch, which was not emitted again.
C38_Witness ==
  /\ ret.op = "delegateChanged"
  /\ ret.from = workspaceFileProviderFactory(1)
  /\ delegate = workspaceFileProviderFactory(2)
  /\ workspaceFileProviderFactory(1) \in disposedProviders
  /\ events = <<>>

\* The delegate in use has fired a batch, which was emitted again.
C38_Forwarded ==
  /\ ret.op = "delegateChanged"
  /\ ret.from = delegate
  /\ Len(events) = 1
  /\ disposedProviders # {}

\* From a folder to another: the same delegate, still subscribed, nothing disposed.
C38_SameDelegate ==
  /\ ret.op = "locationChanged"
  /\ workspace.uri = "file:///v"
  /\ delegate = folderPreferenceProvider
  /\ disposedProviders = {}
  /\ Heard = {folderPreferenceProvider}

\* No workspace is open any more and setPreference has returned false.
C38_NoWorkspace ==
  /\ ret.op = "doSetPreference"
  /\ workspace = NoWorkspace
  /\ disposedProviders # {}
  /\ ~ret.returned

====
